---- MODULE Spec2Model ----
(***************************************************************************)
(* A model of the rust-macro library: the rank-bucketed DAG-DP engines     *)
(* (Engine, PullDpEngine, PushDpEngine), the re-rooting tree DP, the digit *)
(* DP, union-find, the prefix sum and the bit-vector enumeration.          *)
(*                                                                         *)
(* Every component of the library is an isolated algorithm, so each has    *)
(* its own variables and its own specification (SpecPull, SpecPush, ...);  *)
(* under one component's specification the other components' variables    *)
(* keep their idle value.                                                  *)
(***************************************************************************)
EXTENDS Integers, Sequences, FiniteSets, TLC

VARIABLES
  \* ---- DAG engines: one call of solve / propagate
  engine,   \* "Engine" | "PullDpEngine" | "PushDpEngine"
  ctx,      \* the caller's rules: the neighbour lists and the rule parameters
  roots,    \* the roots / sources argument, a sequence of states
  seen,     \* FxHashSet of discovered states
  buckets,  \* rank -> Vec of states (BTreeMap, or Vec<Vec<_>> in PullDpEngine)
  adj,      \* FxHashMap state -> neighbour list
  stack,    \* the discovery frontier
  val,      \* FxHashMap state -> value
  cursor,   \* position of the evaluation loop in the flattened buckets
  pc,       \* "call" | "discover" | "init" | "eval" | "done" | "panic" | "idle"
  ncalls,   \* ghost: state -> number of neighbors()/succs() calls so far
  found,    \* ghost: the states in the order seen.insert accepted them
  nrank,    \* ghost: the number of rank() calls so far
  evals,    \* the mappings returned so far, one per evaluation of the plan
  \* ---- AllDirectionTreeDP: new(n, edges, identity, merge, add_root), solve()
  tree,     \* self.n and the DP (identity, merge, add_root) given to new
  graph,    \* self.graph, node -> adjacency list
  down,     \* solve's down vector
  ans,      \* solve's ans vector
  tpc,      \* "dfs1" | "dfs2" | "done" | "panic" | "idle"
  \* ---- DigitDP::solve(upper, problem)
  upper,    \* the numeral, a sequence of characters
  problem,  \* the DigitDPRules implementation
  digits,   \* upper's digits
  memo,     \* (i, tight, state) -> count
  result,   \* what solve returns
  dpc,      \* "parse" | "dfs" | "done" | "idle"
  \* ---- UnionFind: new(n), then unite / find / same / size calls
  parent,   \* self.parent, element -> parent
  size,     \* self.size, element -> size (meaningful at roots)
  united,   \* ghost: element -> its class in the equivalence closure of
            \* the pairs passed to unite so far
  redundant,  \* ghost: some unite was given two elements already together
  ret,      \* the last call and what it returned
  \* ---- CumulativeSum<i8>: new(arr), then sum(l, r) calls
  arr,      \* the array given to new
  data,     \* self.data, the prefix sums
  query,    \* the last sum call and what it returned
  cpc,      \* "new" | "ready" | "panic" | "idle"
  cum_overflow_checks,  \* the build's overflow-checks setting
  \* ---- BitVecRange: new(n), then next() calls
  range,    \* the iterator's fields n, curr, end (n alone before new)
  yielded,  \* the bit vectors next() has returned so far
  last,     \* what the last next() returned (an Option)
  bpc,      \* "new" | "iter" | "exhausted" | "panic" | "idle"
  bit_overflow_checks,  \* the build's overflow-checks setting
  \* ---- PersistentUnionFind: new(n), clone(), then calls on either copy
  pheap,    \* the im_rc vectors in memory: cell -> contents
  puf1,     \* the structure uf1: the cells of its parent and size vectors
  puf2,     \* uf2 = uf1.clone(), the empty map before the clone
  pret,     \* the last call on a persistent structure and what it returned
  \* ---- Graph<I, EW, NW, T>: new(), add_edge / add_weight_to_node, queries
  gtype,        \* the type parameter T: "Tree" | "Directed"
  coord_map,    \* key -> node index
  reverse_map,  \* node index -> key
  nodes,        \* node index -> the node's weight (an Option)
  gadj,         \* the field adj: node index -> its list of <<to, weight>>
  gcall,        \* the last call on the graph and what it returned
  \* ---- MemoizedDFS::search(start, problem, return_on_first)
  sproblem,  \* the problem (successors, goals) and return_on_first
  svisited,  \* the HashSet visited
  sresult,   \* the vector result
  sstack,    \* the calls of dfs in progress: node and place in its loop
  sentered,  \* how often dfs got past visited.insert, per node
  spc,       \* "run" | "done" | "idle"
  \* ---- Imos1D: new(n), then add(l, r, x) and build() calls
  imos_n,       \* the n given to new
  imos_data,    \* the field data: index -> i64
  imos_adds,    \* the add calls made so far, as <<l, r, x>>
  imos_builds,  \* the number of build calls that have returned
  imos_ret,     \* the last call and what it returned
  imos_pc,      \* "ready" | "wrapped" (some result wrapped around) | "panic" | "idle"
  imos_overflow_checks, \* the build's overflow-checks setting
  \* ---- BitVec values: new(n), then from_usize, unit, set, set_mut, +, ^, &, |
  bv_n,       \* the length n of the bit vectors
  bv_pool,    \* two BitVec variables of the caller: 1 .. 2 -> BitVec
  bv_ret,     \* the last call, its arguments and what it returned
  bv_pc,      \* "ready" | "panic" | "idle"
  bv_overflow_checks  \* the build's overflow-checks setting

dagVars == <<engine, ctx, roots, seen, buckets, adj, stack, val, cursor, pc, ncalls, found,
            nrank, evals>>

treeVars == <<tree, graph, down, ans, tpc>>

digitVars == <<upper, problem, digits, memo, result, dpc>>

ufVars == <<parent, size, united, redundant, ret>>

cumVars == <<arr, data, query, cpc, cum_overflow_checks>>

bitVars == <<range, yielded, last, bpc, bit_overflow_checks>>

pufVars == <<pheap, puf1, puf2, pret>>

graphVars == <<gtype, coord_map, reverse_map, nodes, gadj, gcall>>

searchVars == <<sproblem, svisited, sresult, sstack, sentered, spc>>

imosVars == <<imos_n, imos_data, imos_adds, imos_builds, imos_ret, imos_pc, imos_overflow_checks>>

bvecVars == <<bv_n, bv_pool, bv_ret, bv_pc, bv_overflow_checks>>

vars == <<dagVars, treeVars, digitVars, ufVars, cumVars, bitVars, pufVars, graphVars, searchVars, imosVars, bvecVars>>

\* What an action of one component leaves alone.
nonDagVars == <<treeVars, digitVars, ufVars, cumVars, bitVars, pufVars, graphVars, searchVars, imosVars, bvecVars>>

nonTreeVars == <<dagVars, digitVars, ufVars, cumVars, bitVars, pufVars, graphVars, searchVars, imosVars, bvecVars>>

nonDigitVars == <<dagVars, treeVars, ufVars, cumVars, bitVars, pufVars, graphVars, searchVars, imosVars, bvecVars>>

nonUfVars == <<dagVars, treeVars, digitVars, cumVars, bitVars, pufVars, graphVars, searchVars, imosVars, bvecVars>>

nonCumVars == <<dagVars, treeVars, digitVars, ufVars, bitVars, pufVars, graphVars, searchVars, imosVars, bvecVars>>

nonBitVars == <<dagVars, treeVars, digitVars, ufVars, cumVars, pufVars, graphVars, searchVars, imosVars, bvecVars>>

nonPufVars == <<dagVars, treeVars, digitVars, ufVars, cumVars, bitVars, graphVars, searchVars, imosVars, bvecVars>>

nonGraphVars == <<dagVars, treeVars, digitVars, ufVars, cumVars, bitVars, pufVars, searchVars, imosVars, bvecVars>>

nonSearchVars == <<dagVars, treeVars, digitVars, ufVars, cumVars, bitVars, pufVars, graphVars, imosVars, bvecVars>>

nonImosVars == <<dagVars, treeVars, digitVars, ufVars, cumVars, bitVars, pufVars, graphVars, searchVars, bvecVars>>

nonBvecVars == <<dagVars, treeVars, digitVars, ufVars, cumVars, bitVars, pufVars, graphVars, searchVars, imosVars>>

(***************************************************************************)
(* Bounds of the model.                                                    *)
(***************************************************************************)
MaxDeg == 2     \* longest neighbour list a state may have
MaxEvals == 2   \* most evaluations of one plan
MaxRoots == 2   \* longest roots / sources sequence
MaxNodes == 5   \* most nodes of a tree given to AllDirectionTreeDP
MaxDigits == 3  \* longest numeral of the exhaustive DigitDP inputs
MaxElems == 4   \* most elements of a UnionFind
MaxLen == 3     \* longest array given to CumulativeSum::new
MaxBits == 5    \* longest bit vectors enumerated exhaustively

(***************************************************************************)
(* Generic helpers.                                                        *)
(***************************************************************************)
SeqsUpTo(S, n) == UNION {[1 .. k -> S] : k \in 0 .. n}

Range(f) == {f[x] : x \in DOMAIN f}

MinOf(S) == CHOOSE x \in S : \A y \in S : x <= y

EmptyMap == [x \in {} |-> 0]

\* HashMap::insert / BTreeMap::insert
Put(m, k, v) == [x \in DOMAIN m \cup {k} |-> IF x = k THEN v ELSE m[x]]

(***************************************************************************)
(* The caller's side of the DAG engines: states, rank, neighbour lists.    *)
(***************************************************************************)
States == 0 .. 3

\* The rules' rank function: two states share rank 1, so that a bucket can
\* hold more than one state.
rank(s) == (s + 1) \div 2

Lower(s) == {t \in States : rank(t) < rank(s)}

Higher(s) == {t \in States : rank(t) > rank(s)}

\* neighbors() of a pull problem that keeps the rank invariant: every
\* neighbour list holds states of strictly smaller rank only.
PullGraphs ==
  {[s \in States |-> <<a, b, c, d>>[s + 1]] :
     a \in SeqsUpTo(Lower(0), MaxDeg), b \in SeqsUpTo(Lower(1), MaxDeg),
     c \in SeqsUpTo(Lower(2), MaxDeg), d \in SeqsUpTo(Lower(3), MaxDeg)}

\* base() of PullDPRules: Some for the states of c.base, None (the empty
\* set) otherwise.  DagDPRules has no base.
base(c, s) == IF s \in c.base THEN {s + 5} ELSE {}

\* combine() of the rules: an order-sensitive fold of the child values.
RECURSIVE CombineFrom(_, _, _)
CombineFrom(cv, i, h) ==
  IF i > Len(cv) THEN h ELSE CombineFrom(cv, i + 1, (2 * h + cv[i] + 1) % 11)

combine(s, child_vals) == CombineFrom(child_vals, 1, s)

\* succs() of a push problem that keeps the rank invariant: every successor
\* list holds states of strictly larger rank only.
PushGraphs ==
  {[s \in States |-> <<a, b, c, d>>[s + 1]] :
     a \in SeqsUpTo(Higher(0), MaxDeg), b \in SeqsUpTo(Higher(1), MaxDeg),
     c \in SeqsUpTo(Higher(2), MaxDeg), d \in SeqsUpTo(Higher(3), MaxDeg)}

\* The monoids a push problem is run with: addition modulo 5, minimum with
\* top element 4, and "keep the first non-identity operand", which is
\* associative with identity 0 but not commutative.
Monoids == {"add", "min", "first"}

Commutative(m) == m \in {"add", "min"}

identity(c) == IF c.monoid = "min" THEN 4 ELSE 0

op(c, into, add) ==
  CASE c.monoid = "add" -> (into + add) % 5
    [] c.monoid = "min" -> IF into <= add THEN into ELSE add
    [] c.monoid = "first" -> IF into = 0 THEN add ELSE into

\* init() of PushDPRules: Some for the seeded states, None otherwise.
init(c, s) == IF s \in c.seeds THEN {s + 1} ELSE {}

\* trans(): the contribution of `from` to `to`; depends on both ends and on
\* the value pushed.
trans(c, from, to, v_from) == (v_from + from + 2 * to + 1) % 5

(***************************************************************************)
(* Discovery (the same loop in Engine::solve, PullDpEngine::prepare and    *)
(* PushDpEngine::propagate).                                               *)
(***************************************************************************)
\* Mutant of push_bucket: the bucket is replaced by one that holds the new
\* state only.
push_bucketOverwrite(e, b, r, s) ==
  LET keys == IF e = "PullDpEngine" THEN DOMAIN b \cup (0 .. r)
              ELSE DOMAIN b \cup {r}
      old(k) == IF k \in DOMAIN b THEN b[k] ELSE <<>>
  IN [k \in keys |-> IF k = r THEN <<s>> ELSE old(k)]

\* Mutant of push_bucket: the state is put at the front of its bucket.
push_bucketFront(e, b, r, s) ==
  LET keys == IF e = "PullDpEngine" THEN DOMAIN b \cup (0 .. r)
              ELSE DOMAIN b \cup {r}
      old(k) == IF k \in DOMAIN b THEN b[k] ELSE <<>>
  IN [k \in keys |-> IF k = r THEN <<s>> \o old(k) ELSE old(k)]

\* push_bucket of PullDpEngine (Vec<Vec<S>>, resized to r + 1) and
\* buckets.entry(r).or_default().push(s) of the BTreeMap engines.
push_bucket(e, b, r, s) ==
  LET keys == IF e = "PullDpEngine" THEN DOMAIN b \cup (0 .. r)
              ELSE DOMAIN b \cup {r}
      old(k) == IF k \in DOMAIN b THEN b[k] ELSE <<>>
  IN [k \in keys |-> IF k = r THEN Append(old(k), s) ELSE old(k)]

\* Mutant of SeedFrom: every occurrence of a root is bucketed, seen or not.
RECURSIVE SeedFromEveryRoot(_, _, _, _)
SeedFromEveryRoot(e, rs, i, d) ==
  IF i > Len(rs) THEN d
  ELSE LET s == rs[i]
       IN SeedFromEveryRoot(e, rs, i + 1,
            [d EXCEPT !.seen = @ \cup {s},
                      !.buckets = push_bucket(e, @, rank(s), s)])

\* for s in &stack { if seen.insert(s) { push_bucket(rank(s), s) } }
RECURSIVE SeedFrom(_, _, _, _)
SeedFrom(e, rs, i, d) ==
  IF i > Len(rs) THEN d
  ELSE LET s == rs[i]
       IN SeedFrom(e, rs, i + 1,
            IF s \in d.seen THEN d
            ELSE [d EXCEPT !.seen = @ \cup {s},
                           !.buckets = push_bucket(e, @, rank(s), s)])

\* Mutant of VisitFrom: a newly seen neighbour is bucketed but never pushed
\* on the frontier, so it is never expanded.
RECURSIVE VisitFromNoPush(_, _, _, _)
VisitFromNoPush(e, ns, i, d) ==
  IF i > Len(ns) THEN d
  ELSE LET t == ns[i]
       IN VisitFromNoPush(e, ns, i + 1,
            IF t \in d.seen THEN d
            ELSE [d EXCEPT !.seen = @ \cup {t},
                           !.buckets = push_bucket(e, @, rank(t), t)])

\* for t in ns { if seen.insert(t) { push_bucket(rank(t), t); stack.push(t) } }
RECURSIVE VisitFrom(_, _, _, _)
VisitFrom(e, ns, i, d) ==
  IF i > Len(ns) THEN d
  ELSE LET t == ns[i]
       IN VisitFrom(e, ns, i + 1,
            IF t \in d.seen THEN d
            ELSE [d EXCEPT !.seen = @ \cup {t},
                           !.buckets = push_bucket(e, @, rank(t), t),
                           !.stack = Append(@, t)])

\* Mutant of RankOk: a neighbour of the same rank passes the test.
RankOkNonStrict(e, s, ns) ==
  \A i \in 1 .. Len(ns) :
    IF e = "PushDpEngine" THEN rank(ns[i]) >= rank(s)
    ELSE rank(ns[i]) <= rank(s)

\* debug_assert!(ns.iter().all(|t| rank(t) < rs))   (> rs in the push engine)
RankOk(e, s, ns) ==
  \A i \in 1 .. Len(ns) :
    IF e = "PushDpEngine" THEN rank(ns[i]) > rank(s) ELSE rank(ns[i]) < rank(s)

\* The rank() calls of the debug assertion on the neighbour list ns of s:
\* none in a build without debug assertions; all() stops at the first
\* neighbour that fails the test.
RankAsserted(e, c, s, ns) ==
  IF ~c.debug THEN 0
  ELSE IF RankOk(e, s, ns) THEN Len(ns)
  ELSE MinOf({i \in 1 .. Len(ns) :
                ~RankOk(e, s, SubSeq(ns, 1, i))})

\* One iteration of `while let Some(s) = stack.pop()`: the discovery state
\* after it, with panic set when the debug assertion fails.
ExpandStep(e, c, d) ==
  LET s == d.stack[Len(d.stack)]
      ns == c.nbrs[s]
      popped == [d EXCEPT !.stack = SubSeq(@, 1, Len(@) - 1)]
  IN IF c.debug /\ ~RankOk(e, s, ns)
       THEN [popped EXCEPT !.panic = TRUE]
       ELSE VisitFrom(e, ns, 1, [popped EXCEPT !.adj = Put(@, s, ns)])

\* buckets.iter() flattened: ascending rank, insertion order within a rank.
RECURSIVE FlattenKeys(_, _)
FlattenKeys(b, keys) ==
  IF keys = {} THEN <<>>
  ELSE LET k == MinOf(keys) IN b[k] \o FlattenKeys(b, keys \ {k})

\* Mutant of Order: the buckets are walked from the highest rank down.
RECURSIVE FlattenKeysDown(_, _)
FlattenKeysDown(b, keys) ==
  IF keys = {} THEN <<>>
  ELSE LET k == MinOf(keys) IN FlattenKeysDown(b, keys \ {k}) \o b[k]

OrderDescending(b) == FlattenKeysDown(b, DOMAIN b)

Order(b) == FlattenKeys(b, DOMAIN b)

(***************************************************************************)
(* Evaluation of one state by the pull engines.                            *)
(***************************************************************************)
\* adj.get(s).map(|v| v.as_slice()).unwrap_or(&[])
Childs(a, s) == IF s \in DOMAIN a THEN a[s] ELSE <<>>

\* The children whose ChildRef the rules' combine takes from the iterator
\* PullDpEngine hands it: all of them, or the first one only.  The lookup
\* val.get(c).expect(..) runs inside the iterator, so only for these.
\* Engine looks every child up before it calls combine.
Consumed(e, c, childs) ==
  IF e = "PullDpEngine" /\ c.take = "first" /\ Len(childs) > 1
    THEN SubSeq(childs, 1, 1)
    ELSE childs

\* Mutant of PullEval: a child without a stored value counts as 0.
PullEvalDefault(e, c, a, v, s) ==
  LET childs == Consumed(e, c, Childs(a, s))
  IN IF e = "PullDpEngine" /\ base(c, s) # {}
       THEN [panic |-> FALSE, value |-> CHOOSE x \in base(c, s) : TRUE]
     ELSE [panic |-> FALSE,
           value |-> combine(s, [i \in 1 .. Len(childs) |->
                                   IF childs[i] \in DOMAIN v
                                     THEN v[childs[i]] ELSE 0])]

\* The state's value, or "panic" when a child that is looked up has no
\* stored value
\* (val.get(c).unwrap() / .expect("child DP value must exist before parent")).
PullEval(e, c, a, v, s) ==
  LET childs == Consumed(e, c, Childs(a, s))
  IN IF e = "PullDpEngine" /\ base(c, s) # {}
       THEN [panic |-> FALSE, value |-> CHOOSE x \in base(c, s) : TRUE]
     ELSE IF \E i \in 1 .. Len(childs) : childs[i] \notin DOMAIN v
       THEN [panic |-> TRUE, value |-> 0]
     ELSE [panic |-> FALSE,
           value |-> combine(s, [i \in 1 .. Len(childs) |-> v[childs[i]]])]

(***************************************************************************)
(* Evaluation by the push engine.                                          *)
(***************************************************************************)
\* Mutant of InitFrom: a seeded state starts from the identity, not from
\* its init value.
RECURSIVE InitFromIdentity(_, _, _, _)
InitFromIdentity(c, order, i, v) ==
  IF i > Len(order) THEN v
  ELSE LET s == order[i]
       IN InitFromIdentity(c, order, i + 1,
            IF init(c, s) # {} THEN Put(v, s, identity(c)) ELSE v)

\* for s in states { if let Some(v0) = init(s) { val.insert(s, v0) } }
RECURSIVE InitFrom(_, _, _, _)
InitFrom(c, order, i, v) ==
  IF i > Len(order) THEN v
  ELSE LET s == order[i]
       IN InitFrom(c, order, i + 1,
            IF init(c, s) # {}
              THEN Put(v, s, CHOOSE x \in init(c, s) : TRUE)
              ELSE v)

\* Mutant of PushFrom: the contribution overwrites the accumulator instead
\* of being folded into it.
RECURSIVE PushFromOverwrite(_, _, _, _, _, _)
PushFromOverwrite(c, s, vs, succs, i, v) ==
  IF i > Len(succs) THEN v
  ELSE PushFromOverwrite(c, s, vs, succs, i + 1,
         Put(v, succs[i], trans(c, s, succs[i], vs)))

\* Mutant of PushFrom: the contribution is folded into the entry of the
\* source s, not of the successor t.
RECURSIVE PushFromIntoSource(_, _, _, _, _, _)
PushFromIntoSource(c, s, vs, succs, i, v) ==
  IF i > Len(succs) THEN v
  ELSE LET t == succs[i]
           inc == trans(c, s, t, vs)
           entry == IF s \in DOMAIN v THEN v[s] ELSE identity(c)
       IN PushFromIntoSource(c, s, vs, succs, i + 1,
                             Put(v, s, op(c, entry, inc)))

\* for t in succs { inc = trans(s, t, vs);
\*                  entry = val.entry(t).or_insert_with(identity);
\*                  *entry = op(entry, inc) }
RECURSIVE PushFrom(_, _, _, _, _, _)
PushFrom(c, s, vs, succs, i, v) ==
  IF i > Len(succs) THEN v
  ELSE LET t == succs[i]
           inc == trans(c, s, t, vs)
           entry == IF t \in DOMAIN v THEN v[t] ELSE identity(c)
       IN PushFrom(c, s, vs, succs, i + 1, Put(v, t, op(c, entry, inc)))

\* Mutant of PushState: a state without a value pushes nothing.
PushStateSkipAbsent(c, a, v, s) ==
  IF s \in DOMAIN v /\ s \in DOMAIN a THEN PushFrom(c, s, v[s], a[s], 1, v)
  ELSE v

\* One iteration of `for s in states` of the propagation loop.
PushState(c, a, v, s) ==
  LET vs == IF s \in DOMAIN v THEN v[s] ELSE identity(c)
  IN IF s \in DOMAIN a THEN PushFrom(c, s, vs, a[s], 1, v) ELSE v

(***************************************************************************)
(* The engines as functions of their arguments: the steps above run to     *)
(* completion.                                                             *)
(***************************************************************************)
Seeded(e, rs) ==
  SeedFrom(e, rs, 1,
    [seen |-> {}, buckets |-> EmptyMap, adj |-> EmptyMap, stack |-> rs,
     panic |-> FALSE])

RECURSIVE DiscoverLoop(_, _, _)
DiscoverLoop(e, c, d) ==
  IF d.stack = <<>> \/ d.panic THEN d
  ELSE DiscoverLoop(e, c, ExpandStep(e, c, d))

RECURSIVE PushLoop(_, _, _, _, _)
PushLoop(c, a, order, i, v) ==
  IF i > Len(order) THEN v
  ELSE PushLoop(c, a, order, i + 1, PushState(c, a, v, order[i]))

\* The evaluation loop of the pull engines from place i of the order on:
\* the mapping, and whether a lookup of a child value panicked.
RECURSIVE PullLoop(_, _, _, _, _, _)
PullLoop(e, c, a, order, i, v) ==
  IF i > Len(order) THEN [panic |-> FALSE, val |-> v]
  ELSE LET r == PullEval(e, c, a, v, order[i])
       IN IF r.panic THEN [panic |-> TRUE, val |-> v]
          ELSE PullLoop(e, c, a, order, i + 1, Put(v, order[i], r.value))

\* Engine::solve(ctx, roots) and PullDpEngine::solve(ctx, roots), for rules
\* that keep the rank invariant (discovery does not panic).
solve(e, c, rs) ==
  LET d == DiscoverLoop(e, c, Seeded(e, rs))
  IN PullLoop(e, c, d.adj, Order(d.buckets), 1, EmptyMap)

\* PushDpEngine::propagate(ctx, sources), for rules that keep the rank
\* invariant (discovery does not panic).
propagate(c, sources) ==
  LET d == DiscoverLoop("PushDpEngine", c, Seeded("PushDpEngine", sources))
      order == Order(d.buckets)
  IN PushLoop(c, d.adj, order, 1, InitFrom(c, order, 1, EmptyMap))

(***************************************************************************)
(* Actions of the DAG engines.                                             *)
(***************************************************************************)
\* The states of ns, from index i on, that seen.insert accepts when seen
\* holds S: the first occurrence of every state that is not in S.
RECURSIVE NewlySeen(_, _, _)
NewlySeen(ns, i, S) ==
  IF i > Len(ns) THEN <<>>
  ELSE IF ns[i] \in S THEN NewlySeen(ns, i + 1, S)
  ELSE <<ns[i]>> \o NewlySeen(ns, i + 1, S \cup {ns[i]})

\* let mut stack = roots.collect(); for s in &stack { ... }
Seed ==
  /\ pc = "call"
  /\ LET d == Seeded(engine, roots)
     IN /\ seen' = d.seen
        /\ buckets' = d.buckets
  /\ stack' = roots
  /\ pc' = "discover"
  /\ UNCHANGED nonDagVars
  /\ found' = NewlySeen(roots, 1, {})
  /\ nrank' = nrank + Len(NewlySeen(roots, 1, {}))
  /\ UNCHANGED evals
  /\ UNCHANGED <<engine, ctx, roots, adj, val, cursor, ncalls>>

\* One iteration of `while let Some(s) = stack.pop()`.
Expand ==
  /\ pc = "discover"
  /\ stack # <<>>
  /\ LET d == ExpandStep(engine, ctx,
                [seen |-> seen, buckets |-> buckets, adj |-> adj,
                 stack |-> stack, panic |-> FALSE])
     IN /\ seen' = d.seen
        /\ buckets' = d.buckets
        /\ adj' = d.adj
        /\ stack' = d.stack
        /\ pc' = IF d.panic THEN "panic" ELSE "discover"
  /\ ncalls' = [ncalls EXCEPT ![stack[Len(stack)]] = @ + 1]
  /\ found' = IF pc' = "panic" THEN found
              ELSE found \o NewlySeen(ctx.nbrs[stack[Len(stack)]], 1, seen)
  /\ nrank' = nrank + 1
                + RankAsserted(engine, ctx, stack[Len(stack)],
                               ctx.nbrs[stack[Len(stack)]])
                + (IF pc' = "panic" THEN 0
                   ELSE Len(NewlySeen(ctx.nbrs[stack[Len(stack)]], 1, seen)))
  /\ UNCHANGED evals
  /\ UNCHANGED nonDagVars
  /\ UNCHANGED <<engine, ctx, roots, val, cursor>>

\* The discovery loop ends; the pull engines start to evaluate.
StartEval ==
  /\ pc = "discover"
  /\ stack = <<>>
  /\ engine # "PushDpEngine"
  /\ pc' = "eval"
  /\ cursor' = 1
  /\ UNCHANGED nonDagVars
  /\ UNCHANGED <<engine, ctx, roots, seen, buckets, adj, stack, val, ncalls, found,
               nrank, evals>>

\* Mutant of PullStep: the step takes the neighbour list of the state out
\* of the adjacency map.
PullStepConsuming ==
  /\ pc = "eval"
  /\ engine # "PushDpEngine"
  /\ cursor <= Len(Order(buckets))
  /\ LET s == Order(buckets)[cursor]
         r == PullEval(engine, ctx, adj, val, s)
     IN IF r.panic
          THEN pc' = "panic" /\ UNCHANGED <<val, cursor>>
          ELSE /\ val' = Put(val, s, r.value)
               /\ cursor' = cursor + 1
               /\ pc' = "eval"
  /\ adj' = [t \in DOMAIN adj \ {Order(buckets)[cursor]} |-> adj[t]]
  /\ UNCHANGED nonDagVars
  /\ UNCHANGED <<engine, ctx, roots, seen, buckets, stack, ncalls, found,
               nrank, evals>>

\* One iteration of `for s in states` of the pull evaluation loops.
PullStep ==
  /\ pc = "eval"
  /\ engine # "PushDpEngine"
  /\ cursor <= Len(Order(buckets))
  /\ LET s == Order(buckets)[cursor]
         r == PullEval(engine, ctx, adj, val, s)
     IN IF r.panic
          THEN pc' = "panic" /\ UNCHANGED <<val, cursor>>
          ELSE /\ val' = Put(val, s, r.value)
               /\ cursor' = cursor + 1
               /\ pc' = "eval"
  /\ UNCHANGED nonDagVars
  /\ UNCHANGED <<engine, ctx, roots, seen, buckets, adj, stack, ncalls, found,
               nrank, evals>>

\* The discovery loop ends; the push engine seeds val from init().
StartPush ==
  /\ pc = "discover"
  /\ stack = <<>>
  /\ engine = "PushDpEngine"
  /\ val' = InitFrom(ctx, Order(buckets), 1, EmptyMap)
  /\ pc' = "eval"
  /\ cursor' = 1
  /\ UNCHANGED nonDagVars
  /\ UNCHANGED <<engine, ctx, roots, seen, buckets, adj, stack, ncalls, found,
               nrank, evals>>

\* One iteration of `for s in states` of the propagation loop.
PushStep ==
  /\ pc = "eval"
  /\ engine = "PushDpEngine"
  /\ cursor <= Len(Order(buckets))
  /\ val' = PushState(ctx, adj, val, Order(buckets)[cursor])
  /\ cursor' = cursor + 1
  /\ UNCHANGED nonDagVars
  /\ UNCHANGED <<engine, ctx, roots, seen, buckets, adj, stack, pc, ncalls, found,
               nrank, evals>>

\* The evaluation loop ends and the mapping is returned.
Return ==
  /\ pc = "eval"
  /\ cursor > Len(Order(buckets))
  /\ pc' = "done"
  /\ UNCHANGED nonDagVars
  /\ UNCHANGED <<engine, ctx, roots, seen, buckets, adj, stack, val, cursor, ncalls, found,
               nrank>>
  /\ evals' = Append(evals, val)

\* PullDpEngine::solve_with_plan is called again on the plan of a finished
\* call, with the same rules.
SolveAgain ==
  /\ pc = "done"
  /\ engine = "PullDpEngine"
  /\ Len(evals) < MaxEvals
  /\ val' = EmptyMap
  /\ cursor' = 1
  /\ pc' = "eval"
  /\ UNCHANGED nonDagVars
  /\ UNCHANGED <<engine, ctx, roots, seen, buckets, adj, stack, ncalls, found,
               nrank, evals>>

DagStart(e, c, rs) ==
  /\ engine = e
  /\ ctx = c
  /\ roots = rs
  /\ seen = {}
  /\ buckets = EmptyMap
  /\ adj = EmptyMap
  /\ stack = <<>>
  /\ val = EmptyMap
  /\ cursor = 1
  /\ pc = "call"
  /\ ncalls = [s \in States |-> 0]
  /\ found = <<>>
  /\ nrank = 0
  /\ evals = <<>>

DagIdle ==
  /\ engine = "none"
  /\ ctx = EmptyMap
  /\ roots = <<>>
  /\ seen = {}
  /\ buckets = EmptyMap
  /\ adj = EmptyMap
  /\ stack = <<>>
  /\ val = EmptyMap
  /\ cursor = 1
  /\ pc = "idle"
  /\ ncalls = EmptyMap
  /\ found = <<>>
  /\ nrank = 0
  /\ evals = <<>>

TreeIdle ==
  /\ tree = EmptyMap
  /\ graph = EmptyMap
  /\ down = EmptyMap
  /\ ans = EmptyMap
  /\ tpc = "idle"

DigitIdle ==
  /\ upper = <<>>
  /\ problem = "none"
  /\ digits = <<>>
  /\ memo = EmptyMap
  /\ result = 0
  /\ dpc = "idle"

UfIdle ==
  /\ parent = EmptyMap
  /\ size = EmptyMap
  /\ united = EmptyMap
  /\ redundant = FALSE
  /\ ret = EmptyMap

CumIdle ==
  /\ arr = <<>>
  /\ data = <<>>
  /\ query = EmptyMap
  /\ cpc = "idle"
  /\ cum_overflow_checks = FALSE

BitIdle ==
  /\ range = EmptyMap
  /\ yielded = <<>>
  /\ last = {}
  /\ bpc = "idle"
  /\ bit_overflow_checks = FALSE

PufIdle ==
  /\ pheap = EmptyMap
  /\ puf1 = EmptyMap
  /\ puf2 = EmptyMap
  /\ pret = EmptyMap

GraphIdle ==
  /\ gtype = "idle"
  /\ coord_map = EmptyMap
  /\ reverse_map = EmptyMap
  /\ nodes = EmptyMap
  /\ gadj = EmptyMap
  /\ gcall = EmptyMap

SearchIdle ==
  /\ sproblem = EmptyMap
  /\ svisited = {}
  /\ sresult = <<>>
  /\ sstack = <<>>
  /\ sentered = EmptyMap
  /\ spc = "idle"

ImosIdle ==
  /\ imos_n = 0
  /\ imos_data = EmptyMap
  /\ imos_adds = <<>>
  /\ imos_builds = 0
  /\ imos_ret = EmptyMap
  /\ imos_pc = "idle"
  /\ imos_overflow_checks = FALSE

BvecIdle ==
  /\ bv_n = 0
  /\ bv_pool = EmptyMap
  /\ bv_ret = EmptyMap
  /\ bv_pc = "idle"
  /\ bv_overflow_checks = FALSE

NonDagIdle == TreeIdle /\ DigitIdle /\ UfIdle /\ CumIdle /\ BitIdle /\ PufIdle /\ GraphIdle /\ SearchIdle /\ ImosIdle /\ BvecIdle

NonTreeIdle == DagIdle /\ DigitIdle /\ UfIdle /\ CumIdle /\ BitIdle /\ PufIdle /\ GraphIdle /\ SearchIdle /\ ImosIdle /\ BvecIdle

NonDigitIdle == DagIdle /\ TreeIdle /\ UfIdle /\ CumIdle /\ BitIdle /\ PufIdle /\ GraphIdle /\ SearchIdle /\ ImosIdle /\ BvecIdle

NonUfIdle == DagIdle /\ TreeIdle /\ DigitIdle /\ CumIdle /\ BitIdle /\ PufIdle /\ GraphIdle /\ SearchIdle /\ ImosIdle /\ BvecIdle

NonCumIdle == DagIdle /\ TreeIdle /\ DigitIdle /\ UfIdle /\ BitIdle /\ PufIdle /\ GraphIdle /\ SearchIdle /\ ImosIdle /\ BvecIdle

NonBitIdle == DagIdle /\ TreeIdle /\ DigitIdle /\ UfIdle /\ CumIdle /\ PufIdle /\ GraphIdle /\ SearchIdle /\ ImosIdle /\ BvecIdle

NonPufIdle == DagIdle /\ TreeIdle /\ DigitIdle /\ UfIdle /\ CumIdle /\ BitIdle /\ GraphIdle /\ SearchIdle /\ ImosIdle /\ BvecIdle

NonGraphIdle == DagIdle /\ TreeIdle /\ DigitIdle /\ UfIdle /\ CumIdle /\ BitIdle /\ PufIdle /\ SearchIdle /\ ImosIdle /\ BvecIdle

NonSearchIdle == DagIdle /\ TreeIdle /\ DigitIdle /\ UfIdle /\ CumIdle /\ BitIdle /\ PufIdle /\ GraphIdle /\ ImosIdle /\ BvecIdle

NonImosIdle == DagIdle /\ TreeIdle /\ DigitIdle /\ UfIdle /\ CumIdle /\ BitIdle /\ PufIdle /\ GraphIdle /\ SearchIdle /\ BvecIdle

NonBvecIdle == DagIdle /\ TreeIdle /\ DigitIdle /\ UfIdle /\ CumIdle /\ BitIdle /\ PufIdle /\ GraphIdle /\ SearchIdle /\ ImosIdle

\* A call of Engine::solve or PullDpEngine::solve on a graph that keeps the
\* rank invariant.
InitPull ==
  \E e \in {"Engine", "PullDpEngine"}, g \in PullGraphs,
     rs \in SeqsUpTo(States, MaxRoots), bs \in {{}, {0}} :
    /\ (e = "Engine" => bs = {})
    /\ DagStart(e, [nbrs |-> g, base |-> bs, take |-> "all", debug |-> TRUE],
                rs)
    /\ NonDagIdle

NextPull == Seed \/ Expand \/ StartEval \/ PullStep \/ Return

SpecPull == InitPull /\ [][NextPull]_vars

\* PullDpEngine::prepare on a graph that keeps the rank invariant, and up to
\* MaxEvals calls of solve_with_plan on the plan it returns.
InitPlan ==
  \E g \in PullGraphs, rs \in SeqsUpTo(States, MaxRoots), bs \in {{}, {0}} :
    /\ DagStart("PullDpEngine",
                [nbrs |-> g, base |-> bs, take |-> "all", debug |-> TRUE], rs)
    /\ NonDagIdle

NextPlan == Seed \/ Expand \/ StartEval \/ PullStep \/ Return \/ SolveAgain

SpecPlan == InitPlan /\ [][NextPlan]_vars

\* A call of PushDpEngine::propagate on a graph that keeps the rank
\* invariant, with each of the monoids.
InitPush ==
  \E g \in PushGraphs, rs \in SeqsUpTo(States, MaxRoots),
     m \in Monoids, sd \in {{}, {0, 1}} :
    /\ DagStart("PushDpEngine",
                [nbrs |-> g, seeds |-> sd, monoid |-> m, debug |-> TRUE], rs)
    /\ NonDagIdle

NextPush == Seed \/ Expand \/ StartPush \/ PushStep \/ Return

SpecPush == InitPush /\ [][NextPush]_vars

\* neighbors() / succs() that need not keep the rank invariant: states 1
\* and 2 (both of rank 1) have any list of up to MaxDeg states, so a list
\* may hold the state itself, a state of the same rank or one of a higher
\* rank; states 0 and 3 have none.
AnyGraphs ==
  {[s \in States |-> <<(<<>>), a, b, (<<>>)>>[s + 1]] :
     a \in SeqsUpTo(States, MaxDeg), b \in SeqsUpTo(States, MaxDeg)}

\* The rules each engine is run with on these graphs.
AnyRules(e) ==
  IF e = "PushDpEngine"
    THEN {[seeds |-> {0, 1}, monoid |-> "add"]}
  ELSE IF e = "Engine"
    THEN {[base |-> {}, take |-> "all"]}
  ELSE {[base |-> bs, take |-> tk] : bs \in {{}, {1}}, tk \in {"all", "first"}}

\* A call of any of the three engines from one root, on any graph, in a
\* build with or without debug assertions.
InitDagAny ==
  \E e \in {"Engine", "PullDpEngine", "PushDpEngine"}, g \in AnyGraphs,
     r \in {1, 2}, dbg \in BOOLEAN :
    \E ru \in AnyRules(e) :
      /\ DagStart(e, [k \in DOMAIN ru \cup {"nbrs", "debug"} |->
                        IF k = "nbrs" THEN g
                        ELSE IF k = "debug" THEN dbg ELSE ru[k]],
                  <<r>>)
      /\ NonDagIdle

NextDagAny ==
  Seed \/ Expand \/ StartEval \/ PullStep \/ StartPush \/ PushStep \/ Return

SpecDagAny == InitDagAny /\ [][NextDagAny]_vars

(***************************************************************************)
(* Properties of the DAG engines.                                          *)
(***************************************************************************)
\* The states reachable from S through the neighbour lists g.
RECURSIVE ReachFrom(_, _)
ReachFrom(g, S) ==
  LET N == S \cup UNION {Range(g[s]) : s \in S}
  IN IF N = S THEN S ELSE ReachFrom(g, N)

\* The rearrangements of a list, and the graphs obtained from g by
\* rearranging each state's list.
PermsOf(l) == {[i \in 1 .. Len(l) |-> l[p[i]]] : p \in Permutations(1 .. Len(l))}

PermutedGraphs(g) ==
  {[s \in States |-> <<a, b, c, d>>[s + 1]] :
     a \in PermsOf(g[0]), b \in PermsOf(g[1]),
     c \in PermsOf(g[2]), d \in PermsOf(g[3])}

\* C1: in a pull engine run on a graph that keeps the rank invariant, the
\* state about to be evaluated by combine has a stored value for every one
\* of its neighbours, and the run never panics.
C1_ChildrenEvaluatedFirst ==
  /\ pc # "panic"
  /\ (pc = "eval" /\ cursor <= Len(Order(buckets))) =>
       LET s == Order(buckets)[cursor]
       IN (engine = "Engine" \/ base(ctx, s) = {}) =>
            \A i \in 1 .. Len(ctx.nbrs[s]) : ctx.nbrs[s][i] \in DOMAIN val

\* C1 witness: a finished run in which combine was executed for a state
\* with two different neighbours.
C1_Witness ==
  /\ pc = "done"
  /\ \E s \in DOMAIN val :
       /\ base(ctx, s) = {}
       /\ Len(adj[s]) = 2
       /\ adj[s][1] # adj[s][2]
       /\ val[s] = combine(s, <<val[adj[s][1]], val[adj[s][2]]>>)

\* C2 as stated: for every monoid, a finished propagation has the values it
\* would have with every successor list rearranged.
C2_AnyMonoidOrderIndependent ==
  pc = "done" =>
    \A g \in PermutedGraphs(ctx.nbrs) :
      propagate([ctx EXCEPT !.nbrs = g], roots) = val

\* C2 amended: for every commutative monoid, a finished propagation has the
\* values it would have with every successor list rearranged.
C2_CommutativeOrderIndependent ==
  (pc = "done" /\ Commutative(ctx.monoid)) =>
    \A g \in PermutedGraphs(ctx.nbrs) :
      propagate([ctx EXCEPT !.nbrs = g], roots) = val

\* C2 witness: a finished propagation over a commutative monoid in which
\* state 3 got contributions from both states of rank 1, and a
\* rearrangement of the successor lists changes the processing order.
C2_Witness ==
  /\ pc = "done"
  /\ Commutative(ctx.monoid)
  /\ {1, 2} \subseteq DOMAIN adj
  /\ 3 \in Range(adj[1]) \cap Range(adj[2])
  /\ \E g \in PermutedGraphs(ctx.nbrs) :
       Order(DiscoverLoop(engine, [ctx EXCEPT !.nbrs = g],
                          Seeded(engine, roots)).buckets) # Order(buckets)

\* C10: the mapping a pull engine returns has exactly the states reachable
\* from the roots as its keys; with no roots it is empty.
C10_KeysAreReachableStates ==
  pc = "done" =>
    /\ DOMAIN val = ReachFrom(ctx.nbrs, Range(roots))
    /\ (roots = <<>> => val = EmptyMap)

\* C10 witness: a finished run from two different roots that reaches a
\* state that is not a root and leaves another state unreached.
C10_Witness ==
  /\ pc = "done"
  /\ Len(roots) = 2
  /\ roots[1] # roots[2]
  /\ DOMAIN val \ Range(roots) # {}
  /\ States \ DOMAIN val # {}

(***************************************************************************)
(* AllDirectionTreeDP (re-rooting tree DP).                                *)
(***************************************************************************)
\* The parent argument of the traversal root (usize::MAX in the source): no
\* node has this index.
NoParent == -1

\* The DPs the engine is run with.  "size": identity 0, merge = +,
\* add_root = +1.  "shape": values are nested sequences, merge is
\* concatenation (associative, identity <<>>, not commutative) and add_root
\* wraps its argument, so a value spells out the order of every merge.
TreeKinds == {"size", "shape"}

tree_identity(k) == IF k = "size" THEN 0 ELSE <<>>

merge(k, a, b) == IF k = "size" THEN a + b ELSE a \o b

add_root(k, x) == IF k = "size" THEN x + 1 ELSE <<x>>

\* The edge lists that form a tree on the nodes 0 .. n-1.  An edge is
\* listed as (u, v) with u < v: new() pushes v on graph[u] and u on graph[v]
\* whichever way round the edge is given, so only the order of the edges in
\* the list reaches the adjacency lists.
Pairs(n) == {e \in (0 .. n - 1) \X (0 .. n - 1) : e[1] < e[2]}

RECURSIVE Connected(_, _)
Connected(es, S) ==
  LET N == S \cup {e[2] : e \in {x \in Range(es) : x[1] \in S}}
                \cup {e[1] : e \in {x \in Range(es) : x[2] \in S}}
  IN IF N = S THEN S ELSE Connected(es, N)

Trees(n) ==
  IF n = 0 THEN {<<>>}
  ELSE {es \in [1 .. n - 1 -> Pairs(n)] : Connected(es, {0}) = 0 .. n - 1}

\* new(): graph[u].push(v); graph[v].push(u) for every edge in turn.
RECURSIVE AddEdges(_, _, _)
AddEdges(g, es, i) ==
  IF i > Len(es) THEN g
  ELSE LET u == es[i][1]
           v == es[i][2]
           g1 == [g EXCEPT ![u] = Append(@, v)]
       IN AddEdges([g1 EXCEPT ![v] = Append(@, u)], es, i + 1)

TreeGraph(n, es) == AddEdges([v \in 0 .. n - 1 |-> <<>>], es, 1)

\* dfs1: the loop over graph[v] is Dfs1Loop; the result is the new down
\* vector and the value returned.
RECURSIVE dfs1(_, _, _, _, _)
RECURSIVE Dfs1Loop(_, _, _, _, _, _, _)
Dfs1Loop(k, g, v, p, i, acc, dn) ==
  IF i > Len(g[v]) THEN [acc |-> acc, down |-> dn]
  ELSE LET to == g[v][i]
       IN IF to = p THEN Dfs1Loop(k, g, v, p, i + 1, acc, dn)
          ELSE LET child == dfs1(k, g, to, v, dn)
               IN Dfs1Loop(k, g, v, p, i + 1, merge(k, acc, child.res),
                           child.down)

dfs1(k, g, v, p, dn) ==
  LET r == Dfs1Loop(k, g, v, p, 1, tree_identity(k), dn)
      res == add_root(k, r.acc)
  IN [down |-> [r.down EXCEPT ![v] = res], res |-> res]

\* dfs2's value for the i-th neighbour (0-based) of v: from_parent in the
\* parent's slot, down[to] otherwise.
SlotVal(g, v, p, from_parent, dn, i) ==
  LET to == g[v][i + 1] IN IF to = p THEN from_parent ELSE dn[to]

\* prefix[0 ..= deg] and suffix[0 ..= deg] of dfs2.
PrefixOf(k, g, v, p, from_parent, dn) ==
  LET deg == Len(g[v])
      prefix[i \in 0 .. deg] ==
        IF i = 0 THEN tree_identity(k)
        ELSE merge(k, prefix[i - 1], SlotVal(g, v, p, from_parent, dn, i - 1))
  IN prefix

\* Mutant of SuffixOf: the operands of merge are swapped.
SuffixOfSwapped(k, g, v, p, from_parent, dn) ==
  LET deg == Len(g[v])
      suffix[i \in 0 .. deg] ==
        IF i = deg THEN tree_identity(k)
        ELSE merge(k, suffix[i + 1], SlotVal(g, v, p, from_parent, dn, i))
  IN suffix

SuffixOf(k, g, v, p, from_parent, dn) ==
  LET deg == Len(g[v])
      suffix[i \in 0 .. deg] ==
        IF i = deg THEN tree_identity(k)
        ELSE merge(k, SlotVal(g, v, p, from_parent, dn, i), suffix[i + 1])
  IN suffix

\* Mutant of Without: the suffix starts at the excluded child itself.
WithoutOffByOne(k, prefix, suffix, i) == merge(k, prefix[i], suffix[i])

\* let without = merge(prefix[i], suffix[i + 1])
Without(k, prefix, suffix, i) == merge(k, prefix[i], suffix[i + 1])

\* dfs2: ans[v] is written, then the loop over the children (Dfs2Loop)
\* recurses with each child's from_parent.  The result is the ans vector.
RECURSIVE dfs2(_, _, _, _, _, _, _)
RECURSIVE Dfs2Loop(_, _, _, _, _, _, _, _, _)
Dfs2Loop(k, g, v, p, prefix, suffix, dn, i, an) ==
  IF i >= Len(g[v]) THEN an
  ELSE LET to == g[v][i + 1]
       IN IF to = p
            THEN Dfs2Loop(k, g, v, p, prefix, suffix, dn, i + 1, an)
            ELSE LET next_from_parent ==
                       add_root(k, Without(k, prefix, suffix, i))
                 IN Dfs2Loop(k, g, v, p, prefix, suffix, dn, i + 1,
                      dfs2(k, g, to, v, next_from_parent, dn, an))

dfs2(k, g, v, p, from_parent, dn, an) ==
  LET prefix == PrefixOf(k, g, v, p, from_parent, dn)
      suffix == SuffixOf(k, g, v, p, from_parent, dn)
  IN Dfs2Loop(k, g, v, p, prefix, suffix, dn, 0,
       [an EXCEPT ![v] = add_root(k, prefix[Len(g[v])])])

\* solve, first half: down = vec![identity; n]; dfs1(0, usize::MAX, &mut down).
\* With n = 0 the root's adjacency list graph[0] does not exist and the
\* index panics.
TreeDfs1 ==
  /\ tpc = "dfs1"
  /\ IF tree.n = 0
       THEN tpc' = "panic" /\ UNCHANGED down
       ELSE /\ down' = dfs1(tree.kind, graph, 0, NoParent,
                            [v \in 0 .. tree.n - 1 |-> tree_identity(tree.kind)]).down
            /\ tpc' = "dfs2"
  /\ UNCHANGED <<tree, graph, ans>>
  /\ UNCHANGED nonTreeVars

\* solve, second half: ans = vec![identity; n]; dfs2(0, usize::MAX, identity, ..).
TreeDfs2 ==
  /\ tpc = "dfs2"
  /\ ans' = dfs2(tree.kind, graph, 0, NoParent, tree_identity(tree.kind), down,
                 [v \in 0 .. tree.n - 1 |-> tree_identity(tree.kind)])
  /\ tpc' = "done"
  /\ UNCHANGED <<tree, graph, down>>
  /\ UNCHANGED nonTreeVars

\* The state after AllDirectionTreeDP::new(n, edges, identity, merge,
\* add_root) for a tree on up to MaxNodes nodes (n = 0: the empty input).
\* The struct keeps n and the adjacency lists, not the edge list.
InitTree ==
  /\ \E n \in 0 .. MaxNodes, k \in TreeKinds :
       \E es \in Trees(n) :
         /\ tree = [n |-> n, kind |-> k]
         /\ graph = TreeGraph(n, es)
  /\ down = EmptyMap
  /\ ans = EmptyMap
  /\ tpc = "dfs1"
  /\ NonTreeIdle

NextTree == TreeDfs1 \/ TreeDfs2

SpecTree == InitTree /\ [][NextTree]_vars

(***************************************************************************)
(* Properties of AllDirectionTreeDP.                                       *)
(***************************************************************************)
\* C3: with identity 0, merge = + and add_root = +1, every entry of the
\* vector solve returns for a tree on n >= 1 nodes is n.
C3_SubtreeSizeIsN ==
  (tpc = "done" /\ tree.kind = "size") =>
    /\ DOMAIN ans = 0 .. tree.n - 1
    /\ \A v \in DOMAIN ans : ans[v] = tree.n

\* C3 witness: solve has returned for a "size" tree of five nodes that has
\* a node with a parent and two children.
C3_Witness ==
  /\ tpc = "done"
  /\ tree.kind = "size"
  /\ tree.n = 5
  /\ \E v \in 1 .. 4 : Len(graph[v]) = 3

\* C4: the answer of every node v is what dfs1 returns when v is the
\* traversal root: add_root of the merge, in adjacency-list order, of the
\* subtree aggregates of v's neighbours.
C4_AnswerIsRootedAtNode ==
  tpc = "done" =>
    \A v \in 0 .. tree.n - 1 :
      ans[v] = dfs1(tree.kind, graph, v, NoParent,
                    [u \in 0 .. tree.n - 1 |-> tree_identity(tree.kind)]).res

\* C4 witness: solve has returned for a tree whose merge is not
\* commutative, with a node of three neighbours whose subtree aggregates
\* differ, so that the order of the merges shows in its answer.
C4_Witness ==
  /\ tpc = "done"
  /\ tree.kind = "shape"
  /\ \E v \in 1 .. tree.n - 1 :
       /\ Len(graph[v]) = 3
       /\ 0 \notin Range(graph[v])
       /\ \E i, j \in 1 .. 3 : down[graph[v][i]] # down[graph[v][j]]
       /\ ans[v] # ans[0]

(***************************************************************************)
(* DigitDP.                                                                *)
(***************************************************************************)
MOD == 1000000007

DigitChars == <<"0", "1", "2", "3", "4", "5", "6", "7", "8", "9">>

\* char::to_digit(10) of a decimal digit.
to_digit(ch) == (CHOOSE k \in 1 .. 10 : DigitChars[k] = ch) - 1

\* upper.chars().map(|c| c.to_digit(10).unwrap()).collect()
ParseDigits(u) == [i \in 1 .. Len(u) |-> to_digit(u[i])]

\* The problems of the tests: "all" (state (), every digit 0 ..= lim, always
\* accepted) and "even" (state = the last digit is even, accepted when so).
Problems == {"all", "even"}

rules_init(P) == IF P = "all" THEN "unit" ELSE FALSE

transition(P, i, tight, state, lim) ==
  [j \in 1 .. lim + 1 |->
     <<j - 1, IF P = "all" THEN "unit" ELSE (j - 1) % 2 = 0>>]

is_accept(P, state) == IF P = "all" THEN TRUE ELSE state

\* Mutant of NextTight: the bound stays tight whatever digit is taken.
NextTightSticky(tight, d, lim) == tight

\* let next_tight = tight && d == lim
NextTight(tight, d, lim) == tight /\ d = lim

\* dfs of DigitDP::solve (i is 0-based): the count and the memo after the
\* call.  DigitLoop is the loop over the transitions; its test on next and
\* sub.memo is always true and only makes the evaluation of the recursive
\* call strict, as the call is in the source.
RECURSIVE digit_dfs(_, _, _, _, _, _)
RECURSIVE DigitLoop(_, _, _, _, _, _, _, _, _)
DigitLoop(P, i, tight, lim, trs, j, res, ds, m) ==
  IF j > Len(trs) THEN [res |-> res, memo |-> m]
  ELSE LET d == trs[j][1]
           sub == digit_dfs(P, i + 1, NextTight(tight, d, lim), trs[j][2], ds, m)
           next == (res + sub.res) % MOD
       IN IF next >= 0 /\ DOMAIN sub.memo = DOMAIN sub.memo
            THEN DigitLoop(P, i, tight, lim, trs, j + 1, next, ds, sub.memo)
            ELSE [res |-> 0, memo |-> m]

digit_dfs(P, i, tight, state, ds, m) ==
  IF i = Len(ds)
    THEN [res |-> IF is_accept(P, state) THEN 1 ELSE 0, memo |-> m]
  ELSE IF <<i, tight, state>> \in DOMAIN m
    THEN [res |-> m[<<i, tight, state>>], memo |-> m]
  ELSE LET lim == IF tight THEN ds[i + 1] ELSE 9
           r == DigitLoop(P, i, tight, lim, transition(P, i, tight, state, lim),
                          1, 0, ds, m)
       IN [res |-> r.res, memo |-> Put(r.memo, <<i, tight, state>>, r.res)]

\* let digits = ...; let n = digits.len(); let mut memo = HashMap::default()
DigitParse ==
  /\ dpc = "parse"
  /\ digits' = ParseDigits(upper)
  /\ memo' = EmptyMap
  /\ dpc' = "dfs"
  /\ UNCHANGED <<upper, problem, result>>
  /\ UNCHANGED nonDigitVars

\* dfs(0, true, &init_state, &digits, n, &mut memo, problem)
DigitRun ==
  /\ dpc = "dfs"
  /\ LET r == digit_dfs(problem, 0, TRUE, rules_init(problem), digits, memo)
     IN result' = r.res /\ memo' = r.memo
  /\ dpc' = "done"
  /\ UNCHANGED <<upper, problem, digits>>
  /\ UNCHANGED nonDigitVars

\* The numerals solve is called with: every string of up to MaxDigits
\* decimal digits, and "1000", "1000000005" (MOD - 2), "1000000006"
\* (MOD - 1) and "2147483646".
Uppers ==
  UNION {[1 .. k -> Range(DigitChars)] : k \in 0 .. MaxDigits}
    \cup {<<"1", "0", "0", "0">>,
          <<"1", "0", "0", "0", "0", "0", "0", "0", "0", "5">>,
          <<"1", "0", "0", "0", "0", "0", "0", "0", "0", "6">>,
          <<"2", "1", "4", "7", "4", "8", "3", "6", "4", "6">>}

InitDigit ==
  /\ upper \in Uppers
  /\ problem \in Problems
  /\ digits = <<>>
  /\ memo = EmptyMap
  /\ result = 0
  /\ dpc = "parse"
  /\ NonDigitIdle

NextDigit == DigitParse \/ DigitRun

SpecDigit == InitDigit /\ [][NextDigit]_vars

(***************************************************************************)
(* Properties of DigitDP.                                                  *)
(***************************************************************************)
\* The number a decimal numeral denotes.
RECURSIVE NumeralValue(_)
NumeralValue(u) ==
  IF u = <<>> THEN 0
  ELSE 10 * NumeralValue(SubSeq(u, 1, Len(u) - 1)) + to_digit(u[Len(u)])

\* C5: with every digit 0 ..= lim offered and every state accepted, solve
\* returns N + 1 for a numeral denoting N, as long as N + 1 < MOD.
C5_CountAllIsNPlusOne ==
  (dpc = "done" /\ problem = "all" /\ upper # <<>>
     /\ NumeralValue(upper) + 1 < MOD) =>
    result = NumeralValue(upper) + 1

\* C5 witness: solve("1000") has returned 1001, having met a memoised
\* state again.
C5_Witness ==
  /\ dpc = "done"
  /\ problem = "all"
  /\ upper = <<"1", "0", "0", "0">>
  /\ result = 1001
  /\ <<2, FALSE, "unit">> \in DOMAIN memo

(***************************************************************************)
(* UnionFind.                                                              *)
(***************************************************************************)
\* UnionFind::find with its path compression: the root of x and the parent
\* vector after the call.
RECURSIVE find(_, _)
find(p, x) ==
  IF p[x] = x THEN [root |-> x, parent |-> p]
  ELSE LET r == find(p, p[x])
       IN [root |-> r.root, parent |-> [r.parent EXCEPT ![x] = r.root]]

\* Mutant of unite: the else branch hangs y itself, not y's root, under
\* x's root.
uniteLinkArgument(p, sz, x, y) ==
  LET fx == find(p, x)
      fy == find(fx.parent, y)
      x_root == fx.root
      y_root == fy.root
      q == fy.parent
  IN IF x_root = y_root THEN [parent |-> q, size |-> sz]
     ELSE IF sz[x_root] < sz[y_root]
       THEN [parent |-> [q EXCEPT ![x_root] = y_root],
             size |-> [sz EXCEPT ![y_root] = sz[y_root] + sz[x_root]]]
       ELSE [parent |-> [q EXCEPT ![y] = x_root],
             size |-> [sz EXCEPT ![x_root] = sz[x_root] + sz[y_root]]]

\* Mutant of unite: the first branch forgets to add the absorbed size.
uniteStaleSize(p, sz, x, y) ==
  LET fx == find(p, x)
      fy == find(fx.parent, y)
      x_root == fx.root
      y_root == fy.root
      q == fy.parent
  IN IF x_root = y_root THEN [parent |-> q, size |-> sz]
     ELSE IF sz[x_root] < sz[y_root]
       THEN [parent |-> [q EXCEPT ![x_root] = y_root], size |-> sz]
       ELSE [parent |-> [q EXCEPT ![y_root] = x_root],
             size |-> [sz EXCEPT ![x_root] = sz[x_root] + sz[y_root]]]

\* UnionFind::unite: union by size of the two roots.
unite(p, sz, x, y) ==
  LET fx == find(p, x)
      fy == find(fx.parent, y)
      x_root == fx.root
      y_root == fy.root
      q == fy.parent
  IN IF x_root = y_root THEN [parent |-> q, size |-> sz]
     ELSE IF sz[x_root] < sz[y_root]
       THEN [parent |-> [q EXCEPT ![x_root] = y_root],
             size |-> [sz EXCEPT ![y_root] = sz[y_root] + sz[x_root]]]
       ELSE [parent |-> [q EXCEPT ![y_root] = x_root],
             size |-> [sz EXCEPT ![x_root] = sz[x_root] + sz[y_root]]]

\* UnionFind::same: self.find(x) == self.find(y)
same(p, x, y) ==
  LET fx == find(p, x)
      fy == find(fx.parent, y)
  IN [value |-> fx.root = fy.root, parent |-> fy.parent]

\* UnionFind::size: self.size[self.find(x)]
size_of(p, sz, x) ==
  LET fx == find(p, x)
  IN [value |-> sz[fx.root], parent |-> fx.parent]

UfUnite(x, y) ==
  /\ LET u == unite(parent, size, x, y)
     IN parent' = u.parent /\ size' = u.size
  /\ united' = [z \in DOMAIN united |->
                  IF z \in united[x] \cup united[y]
                    THEN united[x] \cup united[y] ELSE united[z]]
  /\ redundant' = (redundant \/ (x # y /\ y \in united[x]))
  /\ ret' = [op |-> "unite", args |-> <<x, y>>, value |-> "unit"]
  /\ UNCHANGED nonUfVars

UfFind(x) ==
  /\ LET f == find(parent, x)
     IN parent' = f.parent
        /\ ret' = [op |-> "find", args |-> <<x>>, value |-> f.root]
  /\ UNCHANGED <<size, united, redundant>>
  /\ UNCHANGED nonUfVars

UfSame(x, y) ==
  /\ LET r == same(parent, x, y)
     IN parent' = r.parent
        /\ ret' = [op |-> "same", args |-> <<x, y>>, value |-> r.value]
  /\ UNCHANGED <<size, united, redundant>>
  /\ UNCHANGED nonUfVars

UfSize(x) ==
  /\ LET r == size_of(parent, size, x)
     IN parent' = r.parent
        /\ ret' = [op |-> "size", args |-> <<x>>, value |-> r.value]
  /\ UNCHANGED <<size, united, redundant>>
  /\ UNCHANGED nonUfVars

\* UnionFind::new(n)
InitUf ==
  /\ \E n \in 0 .. MaxElems :
       /\ parent = [i \in 0 .. n - 1 |-> i]
       /\ size = [i \in 0 .. n - 1 |-> 1]
       /\ united = [i \in 0 .. n - 1 |-> {i}]
       /\ ret = [op |-> "new", args |-> <<n>>, value |-> "unit"]
  /\ redundant = FALSE
  /\ NonUfIdle

NextUf ==
  \/ \E x, y \in DOMAIN parent : UfUnite(x, y)
  \/ \E x \in DOMAIN parent : UfFind(x)
  \/ \E x, y \in DOMAIN parent : UfSame(x, y)
  \/ \E x \in DOMAIN parent : UfSize(x)

SpecUf == InitUf /\ [][NextUf]_vars

(***************************************************************************)
(* Properties of UnionFind.                                                *)
(***************************************************************************)
\* C6: same(x, y) answers TRUE exactly when x and y are related by the
\* reflexive, symmetric and transitive closure of the pairs given to unite
\* so far, whatever unite, find, same and size calls came before.
C6_SameIsUniteClosure ==
  ret.op = "same" => (ret.value <=> ret.args[2] \in united[ret.args[1]])

\* C6 witness: same has answered TRUE for two distinct elements neither of
\* which is the other's parent, while some element is outside their class.
C6_Witness ==
  /\ ret.op = "same"
  /\ ret.value = TRUE
  /\ ret.args[1] # ret.args[2]
  /\ parent[ret.args[1]] # ret.args[2]
  /\ parent[ret.args[2]] # ret.args[1]
  /\ \E z \in DOMAIN parent : z \notin united[ret.args[1]]

\* C7: size(x) answers the number of elements of x's component, that is the
\* number of y that same(x, y) holds of, also after a unite of two elements
\* that were already together.
C7_SizeIsComponentCardinality ==
  ret.op = "size" =>
    ret.value =
      Cardinality({y \in DOMAIN parent : same(parent, ret.args[1], y).value})

\* C7 witness: size has answered 3 for a component of three elements after
\* a unite of two elements that were already together.
C7_Witness ==
  /\ ret.op = "size"
  /\ ret.value = 3
  /\ redundant
  /\ Cardinality(united[ret.args[1]]) = 3

(***************************************************************************)
(* CumulativeSum<T>, with T = i8.                                          *)
(***************************************************************************)
\* The values of i8 the arrays are made of.
Elems == {-128, -1, 0, 1, 2, 127}

Fits(x) == -128 <= x /\ x <= 127

\* Two's complement wrap-around of i8.
WrapI8(x) == ((x + 128) % 256) - 128

\* An i8 operation whose exact result is x: the result (an Option, {} is
\* the overflow panic of a build with overflow checks).
Arith(x, checks) ==
  IF Fits(x) THEN {x} ELSE IF checks THEN {} ELSE {WrapI8(x)}

\* The loop of CumulativeSum::new from arr[i] on (i is 1-based): the data
\* vector as an Option.
RECURSIVE NewFrom(_, _, _, _)
NewFrom(a, i, d, checks) ==
  IF i > Len(a) THEN {d}
  ELSE LET nxt == Arith(d[Len(d)] + a[i], checks)
       IN IF nxt = {} THEN {}
          ELSE NewFrom(a, i + 1, Append(d, CHOOSE x \in nxt : TRUE), checks)

\* CumulativeSum::new: data starts with T::default().
cum_new(a, checks) == NewFrom(a, 1, <<0>>, checks)

\* Mutant of sum: the range is taken to include index r.
sumInclusive(d, l, r, checks) ==
  IF ~(l <= r /\ r < Len(d)) THEN {}
  ELSE Arith(d[IF r + 2 <= Len(d) THEN r + 2 ELSE r + 1] - d[l + 1], checks)

\* CumulativeSum::sum (d is 1-based, so d[k + 1] is self.data[k]): an
\* Option, {} for the panic of the assert or of the subtraction.
sum(d, l, r, checks) ==
  IF ~(l <= r /\ r < Len(d)) THEN {}
  ELSE Arith(d[r + 1] - d[l + 1], checks)

CumNew ==
  /\ cpc = "new"
  /\ LET d == cum_new(arr, cum_overflow_checks)
     IN IF d = {} THEN data' = <<>> /\ cpc' = "panic"
        ELSE data' = (CHOOSE x \in d : TRUE) /\ cpc' = "ready"
  /\ UNCHANGED <<arr, query, cum_overflow_checks>>
  /\ UNCHANGED nonCumVars

CumSum(l, r) ==
  /\ cpc = "ready"
  /\ LET v == sum(data, l, r, cum_overflow_checks)
     IN /\ query' = [l |-> l, r |-> r, ret |-> v]
        /\ cpc' = IF v = {} THEN "panic" ELSE "ready"
  /\ UNCHANGED <<arr, data, cum_overflow_checks>>
  /\ UNCHANGED nonCumVars

InitCum ==
  /\ arr \in SeqsUpTo(Elems, MaxLen)
  /\ cum_overflow_checks \in BOOLEAN
  /\ data = <<>>
  /\ query = EmptyMap
  /\ cpc = "new"
  /\ NonCumIdle

NextCum ==
  \/ CumNew
  \/ \E l, r \in 0 .. Len(arr) + 1 : CumSum(l, r)

SpecCum == InitCum /\ [][NextCum]_vars

(***************************************************************************)
(* Properties of CumulativeSum.                                            *)
(***************************************************************************)
\* arr[l] + ... + arr[r - 1] in the integers (0-based, as in the source).
RECURSIVE DirectSum(_, _, _)
DirectSum(a, l, r) ==
  IF l >= r THEN 0 ELSE a[l + 1] + DirectSum(a, l + 1, r)

\* No addition of new and no subtraction of sum(l, r) overflows i8.
NoOverflow(a, l, r) ==
  /\ \A k \in 0 .. Len(a) : Fits(DirectSum(a, 0, k))
  /\ Fits(DirectSum(a, l, r))

\* The claim as stated, read in i8 arithmetic: for every array new returns,
\* and for all 0 <= l <= r <= arr.len() sum(l, r) returns the direct sum.
C8_AnyArrayEqualsDirectSum ==
  /\ ~(cpc = "panic" /\ query = EmptyMap)
  /\ (query # EmptyMap /\ query.l <= query.r /\ query.r <= Len(arr)) =>
       query.ret = {WrapI8(DirectSum(arr, query.l, query.r))}

\* C8 as amended: for all 0 <= l <= r <= arr.len(), sum(l, r) equals the
\* direct sum of arr[l], ..., arr[r - 1] in i8 arithmetic, provided that in
\* a build with overflow checks every prefix sum and the sum of the range
\* are representable; new does not panic when the prefix sums are.
C8_DirectSumUnlessOverflow ==
  /\ (cum_overflow_checks =>
        \A k \in 0 .. Len(arr) : Fits(DirectSum(arr, 0, k)))
       => ~(cpc = "panic" /\ query = EmptyMap)
  /\ (/\ query # EmptyMap
      /\ query.l <= query.r
      /\ query.r <= Len(arr)
      /\ cum_overflow_checks => NoOverflow(arr, query.l, query.r))
       => query.ret = {WrapI8(DirectSum(arr, query.l, query.r))}

\* C8 witness: in a build with overflow checks, sum(1, 3) has returned the
\* non-zero sum of arr[1] and arr[2] of an array that starts with a
\* non-zero element.
C8_Witness ==
  /\ cpc = "ready"
  /\ cum_overflow_checks
  /\ query # EmptyMap
  /\ query.l = 1
  /\ query.r = 3
  /\ arr[1] # 0
  /\ query.ret = {arr[2] + arr[3]}
  /\ arr[2] + arr[3] # 0

(***************************************************************************)
(* BitVec and BitVecRange, on a target whose usize has 64 bits.            *)
(***************************************************************************)
RECURSIVE Pow2(_)
Pow2(n) == IF n = 0 THEN 1 ELSE 2 * Pow2(n - 1)

\* 1 << n on usize, as an Option: a shift by 64 or more panics in a build
\* with overflow checks and shifts by n mod 64 in a build without.
shl_one(n, checks) ==
  IF n < 64 THEN {Pow2(n)} ELSE IF checks THEN {} ELSE {Pow2(n % 64)}

\* a & b on usize.
RECURSIVE BitAnd(_, _)
BitAnd(a, b) ==
  IF a = 0 \/ b = 0 THEN 0
  ELSE (a % 2) * (b % 2) + 2 * BitAnd(a \div 2, b \div 2)

\* Mutant of from_usize: the mask is 1 << n, not (1 << n) - 1.
from_usizeShiftedMask(d, n, checks) ==
  LET one == shl_one(n, checks)
  IN IF one = {} THEN {}
     ELSE {[data |-> BitAnd(d, CHOOSE x \in one : TRUE), n |-> n]}

\* BitVec::from_usize, as an Option ({} is the panic of the shift):
\* data & ((1 << n) - 1)
from_usize(d, n, checks) ==
  LET one == shl_one(n, checks)
  IN IF one = {} THEN {}
     ELSE {[data |-> BitAnd(d, (CHOOSE x \in one : TRUE) - 1), n |-> n]}

to_usize(bv) == bv.data

bv_len(bv) == bv.n

\* BitVecRange::new(n)
BitNew ==
  /\ bpc = "new"
  /\ LET e == shl_one(range.n, bit_overflow_checks)
     IN IF e = {} THEN range' = range /\ bpc' = "panic"
        ELSE /\ range' = [n |-> range.n, curr |-> 0,
                          end |-> CHOOSE x \in e : TRUE]
             /\ bpc' = "iter"
  /\ UNCHANGED <<yielded, last, bit_overflow_checks>>
  /\ UNCHANGED nonBitVars

\* BitVecRange::next
BitNext ==
  /\ bpc \in {"iter", "exhausted"}
  /\ IF range.curr < range.end
       THEN LET bv == from_usize(range.curr, range.n, bit_overflow_checks)
            IN IF bv = {}
                 THEN /\ bpc' = "panic"
                      /\ UNCHANGED <<range, yielded, last>>
                 ELSE /\ range' = [range EXCEPT !.curr = range.curr + 1]
                      /\ last' = bv
                      /\ yielded' = Append(yielded, CHOOSE x \in bv : TRUE)
                      /\ bpc' = "iter"
       ELSE /\ last' = {}
            /\ bpc' = "exhausted"
            /\ UNCHANGED <<range, yielded>>
  /\ UNCHANGED bit_overflow_checks
  /\ UNCHANGED nonBitVars

\* The lengths new is called with: 0 .. MaxBits, and the word size and
\* beyond.
Lengths == 0 .. MaxBits \cup {64, 65}

InitBit ==
  /\ \E n \in Lengths : range = [n |-> n]
  /\ bit_overflow_checks \in BOOLEAN
  /\ yielded = <<>>
  /\ last = {}
  /\ bpc = "new"
  /\ NonBitIdle

NextBit == BitNew \/ BitNext

SpecBit == InitBit /\ [][NextBit]_vars

(***************************************************************************)
(* Properties of BitVecRange.                                              *)
(***************************************************************************)
\* k = 2^n, computed without forming 2^n.
RECURSIVE IsPow2(_, _)
IsPow2(k, n) ==
  IF n = 0 THEN k = 1 ELSE k > 0 /\ k % 2 = 0 /\ IsPow2(k \div 2, n - 1)

\* k <= 2^n, computed without forming 2^n.
RECURSIVE AtMostPow2(_, _)
AtMostPow2(k, n) ==
  IF n = 0 \/ k <= 1 THEN k <= 1 ELSE AtMostPow2((k + 1) \div 2, n - 1)

\* The vectors yielded so far are 0, 1, 2, ... in this order, each of
\* length n and each the from_usize of its own to_usize; there are at most
\* 2^n of them, and exactly 2^n once next has returned None.
Enumerates ==
  /\ bpc # "panic"
  /\ \A i \in 1 .. Len(yielded) :
       /\ to_usize(yielded[i]) = i - 1
       /\ bv_len(yielded[i]) = range.n
       /\ from_usize(to_usize(yielded[i]), range.n, bit_overflow_checks)
            = {yielded[i]}
  /\ \A i, j \in 1 .. Len(yielded) : i # j => yielded[i] # yielded[j]
  /\ AtMostPow2(Len(yielded), range.n)
  /\ (bpc = "iter" /\ yielded # <<>>) => last = {yielded[Len(yielded)]}
  /\ bpc = "exhausted" => (IsPow2(Len(yielded), range.n) /\ last = {})

\* The claim as stated: BitVecRange::new(n) enumerates the 2^n bit vectors
\* of length n for every n.
C9_EnumeratesForEveryLength == Enumerates

\* C9 as amended: for every n below the word size, BitVecRange::new(n)
\* yields exactly 2^n distinct bit vectors of length n in the ascending
\* order 0, 1, ..., 2^n - 1, each round-tripping through from_usize and
\* to_usize, and then None.
C9_EnumeratesBelowWordSize == range.n < 64 => Enumerates

\* C9 witness: the iterator for n = 3 has yielded its eight vectors, the
\* last one being 7, and has then returned None.
C9_Witness ==
  /\ bpc = "exhausted"
  /\ range.n = 3
  /\ Len(yielded) = 8
  /\ to_usize(yielded[8]) = 7
  /\ last = {}

(***************************************************************************)
(* Further properties of the DAG engines.                                  *)
(***************************************************************************)
\* The claim as stated: the mapping propagate returns has an entry for
\* every source and every state reachable from a source through succs.
C11_EntryForEveryDiscovered ==
  (pc = "done" /\ engine = "PushDpEngine") =>
    ReachFrom(ctx.nbrs, Range(roots)) \subseteq DOMAIN val

\* C11 as amended: the keys of the mapping propagate returns are exactly
\* the discovered states that have an init value or are a successor of a
\* discovered state.
C11_EntryForSeededOrSuccessor ==
  (pc = "done" /\ engine = "PushDpEngine") =>
    LET disc == ReachFrom(ctx.nbrs, Range(roots))
    IN DOMAIN val =
         {s \in disc : \/ init(ctx, s) # {}
                       \/ \E p \in disc : s \in Range(ctx.nbrs[p])}

\* C11 witness: propagate has returned a mapping that lacks a source but
\* has an entry for a successor of that source.
C11_Witness ==
  /\ pc = "done"
  /\ engine = "PushDpEngine"
  /\ \E r \in Range(roots) :
       /\ r \notin DOMAIN val
       /\ ctx.nbrs[r] # <<>>
       /\ Range(ctx.nbrs[r]) \subseteq DOMAIN val

\* C12: whatever the roots sequence, no state is expanded twice, and once
\* discovery has ended neighbors() has been called exactly once for every
\* discovered state.
C12_NeighborsCalledOncePerState ==
  /\ \A s \in DOMAIN ncalls : ncalls[s] <= 1
  /\ pc \in {"eval", "done"} => \A s \in seen : ncalls[s] = 1

\* The positions (rank, index) at which state s sits in the buckets.
BucketSlots(b, s) ==
  {p \in UNION {{<<k, i>> : i \in 1 .. Len(b[k])} : k \in DOMAIN b} :
     b[p[1]][p[2]] = s}

\* C13: in the pull engines, whatever the roots sequence, every discovered
\* state sits in the buckets exactly once, every evaluation step writes the
\* entry of a state that had none and leaves the other entries alone, and
\* the returned mapping has one entry per discovered state.
C13_OneBucketOneWrite ==
  /\ [](\A s \in States :
          Cardinality(BucketSlots(buckets, s)) = IF s \in seen THEN 1 ELSE 0)
  /\ [][(pc = "eval" /\ cursor' = cursor + 1) =>
          LET s == Order(buckets)[cursor]
          IN /\ s \notin DOMAIN val
             /\ DOMAIN val' = DOMAIN val \cup {s}
             /\ \A t \in DOMAIN val : val'[t] = val[t]]_vars
  /\ [](pc = "done" => DOMAIN val = seen)

\* C13 witness: a finished pull run whose roots sequence repeats a state
\* that has neighbours, every discovered state having its entry.
C13_Witness ==
  /\ pc = "done"
  /\ engine # "PushDpEngine"
  /\ Len(roots) = 2
  /\ roots[1] = roots[2]
  /\ adj[roots[1]] # <<>>
  /\ DOMAIN val = seen

\* The claim as stated: no step of propagate changes an entry of the
\* mapping that has been written.
C14_SingleAssignment ==
  [][\A t \in DOMAIN val : t \in DOMAIN val' /\ val'[t] = val[t]]_vars

\* C14 as amended: an entry that has been written is never removed, and a
\* step changes it only when it processes a state that has the entry's
\* state among its successors.
C14_MutatedOnlyByPredecessor ==
  [][\A t \in DOMAIN val :
       /\ t \in DOMAIN val'
       /\ val'[t] # val[t] =>
            /\ pc = "eval"
            /\ cursor <= Len(Order(buckets))
            /\ t \in Range(adj[Order(buckets)[cursor]])]_vars

\* C14 witness: propagate has returned, and the entry of a seeded state
\* that is a successor of a discovered state no longer holds its init value.
C14_Witness ==
  /\ pc = "done"
  /\ engine = "PushDpEngine"
  /\ \E t \in DOMAIN val :
       /\ init(ctx, t) # {}
       /\ val[t] \notin init(ctx, t)
       /\ \E p \in DOMAIN adj : t \in Range(adj[p])

\* The claim as stated: a pull evaluation step taken for a state one of
\* whose neighbours has no stored value panics and stores nothing.
C15_MissingNeighbourPanics ==
  [][(/\ pc = "eval"
      /\ engine # "PushDpEngine"
      /\ cursor <= Len(Order(buckets))
      /\ Range(Childs(adj, Order(buckets)[cursor])) \ DOMAIN val # {})
       => (pc' = "panic" /\ val' = val)]_vars

\* C15 as amended: a pull evaluation step taken for a state that is
\* evaluated by combine (always in Engine, when base is None in
\* PullDpEngine) panics and stores nothing if a neighbour that is looked
\* up (every neighbour in Engine, those whose item combine takes in
\* PullDpEngine) has no stored value; after the panic nothing is returned.
C15_LookedUpMissingNeighbourPanics ==
  [][/\ (/\ pc = "eval"
         /\ engine # "PushDpEngine"
         /\ cursor <= Len(Order(buckets))
         /\ engine = "PullDpEngine" => base(ctx, Order(buckets)[cursor]) = {}
         /\ Range(Consumed(engine, ctx, Childs(adj, Order(buckets)[cursor])))
              \ DOMAIN val # {})
          => (pc' = "panic" /\ val' = val)
     /\ pc = "panic" => pc' = "panic"]_vars

\* C15 witness: with debug assertions off, a pull evaluation has panicked
\* at a state that has a neighbour without a stored value, after other
\* states had been evaluated.
C15_Witness ==
  /\ pc = "panic"
  /\ ~ctx.debug
  /\ engine # "PushDpEngine"
  /\ val # EmptyMap
  /\ Range(Childs(adj, Order(buckets)[cursor])) \ DOMAIN val # {}

(***************************************************************************)
(* PersistentUnionFind.  Its two fields are im_rc vectors: a vector value  *)
(* is a reference to shared memory, so the structure is modelled as two    *)
(* cell names and the memory as a map from cell names to contents.         *)
(***************************************************************************)
MaxTogether == 3    \* most elements of two union-finds given every call
MaxPersistent == 8  \* elements of two union-finds given tree-building calls
MaxSnapshot == 3    \* most elements of a cloned PersistentUnionFind

\* The cell a new vector is put in.
FreshCell(heap) ==
  MinOf({c \in 0 .. Cardinality(DOMAIN heap) : c \notin DOMAIN heap})

\* Mutant of Vector::update: the vector is overwritten where it is.
vec_updateInPlace(heap, cell, i, v) ==
  [heap |-> [heap EXCEPT ![cell] = [heap[cell] EXCEPT ![i] = v]],
   cell |-> cell]

\* Vector::update(i, v): a new vector that differs from the old one at i;
\* the old one is left as it was.
vec_update(heap, cell, i, v) ==
  LET c == FreshCell(heap)
  IN [heap |-> Put(heap, c, [heap[cell] EXCEPT ![i] = v]), cell |-> c]

\* The vectors that the structures `live` refer to, in the order uf1.parent,
\* uf1.size, uf2.parent, uf2.size.
LiveCells(live) ==
  LET cellsOf(u) == IF u = EmptyMap THEN <<>> ELSE <<u.parent, u.size>>
  IN cellsOf(live[1]) \o cellsOf(live[2])

\* The name of cell c once memory is tidied: the number of distinct live
\* cells referred to before c is.
CellName(cells, c) ==
  LET first == MinOf({j \in 1 .. Len(cells) : cells[j] = c})
  IN Cardinality({cells[j] : j \in 1 .. first - 1})

\* The vectors dropped by an assignment to a field are freed; what stays is
\* what uf1 and uf2 refer to, and cell names carry no meaning, so the cells
\* that stay are named in the order of LiveCells.
Dropped(heap, live) ==
  LET cells == LiveCells(live)
      named(u) == IF u = EmptyMap THEN u
                  ELSE [parent |-> CellName(cells, u.parent),
                        size |-> CellName(cells, u.size)]
  IN [heap |-> [n \in {CellName(cells, cells[j]) : j \in 1 .. Len(cells)} |->
                  heap[CHOOSE c \in DOMAIN heap :
                         \E j \in 1 .. Len(cells) :
                           cells[j] = c /\ CellName(cells, c) = n]],
      uf1 |-> named(live[1]),
      uf2 |-> named(live[2])]

\* PersistentUnionFind::find_immut: the root of x, nothing written.
RECURSIVE find_immut(_, _)
find_immut(p, x) ==
  IF p[x] = x THEN x ELSE find_immut(p, p[x])

\* PersistentUnionFind::find: the root of x; only x itself is re-parented
\* (the clone it searches is a temporary that shares the vectors).
persistent_find(heap, u, x) ==
  LET p == heap[u.parent]
  IN IF p[x] = x THEN [heap |-> heap, uf |-> u, value |-> x]
     ELSE LET r == find_immut(p, p[x])
              w == vec_update(heap, u.parent, x, r)
          IN [heap |-> w.heap, uf |-> [u EXCEPT !.parent = w.cell],
              value |-> r]

\* Mutant of PersistentUnionFind::unite: y's root always goes under x's
\* root, whatever the sizes.
persistent_uniteIgnoreSize(heap, u, x, y) ==
  LET fx == persistent_find(heap, u, x)
      fy == persistent_find(fx.heap, fx.uf, y)
      x_root == fx.value
      y_root == fy.value
      sz == fy.heap[fy.uf.size]
  IN IF x_root = y_root THEN [heap |-> fy.heap, uf |-> fy.uf]
     ELSE LET wp == vec_update(fy.heap, fy.uf.parent, y_root, x_root)
              ws == vec_update(wp.heap, fy.uf.size, x_root,
                               sz[x_root] + sz[y_root])
          IN [heap |-> ws.heap,
              uf |-> [parent |-> wp.cell, size |-> ws.cell]]

\* PersistentUnionFind::unite: union by size of the two roots.
persistent_unite(heap, u, x, y) ==
  LET fx == persistent_find(heap, u, x)
      fy == persistent_find(fx.heap, fx.uf, y)
      x_root == fx.value
      y_root == fy.value
      sz == fy.heap[fy.uf.size]
  IN IF x_root = y_root THEN [heap |-> fy.heap, uf |-> fy.uf]
     ELSE IF sz[x_root] < sz[y_root]
       THEN LET wp == vec_update(fy.heap, fy.uf.parent, x_root, y_root)
                ws == vec_update(wp.heap, fy.uf.size, y_root,
                                 sz[y_root] + sz[x_root])
            IN [heap |-> ws.heap,
                uf |-> [parent |-> wp.cell, size |-> ws.cell]]
       ELSE LET wp == vec_update(fy.heap, fy.uf.parent, y_root, x_root)
                ws == vec_update(wp.heap, fy.uf.size, x_root,
                                 sz[x_root] + sz[y_root])
            IN [heap |-> ws.heap,
                uf |-> [parent |-> wp.cell, size |-> ws.cell]]

\* PersistentUnionFind::same: self.find(x) == self.find(y)
persistent_same(heap, u, x, y) ==
  LET fx == persistent_find(heap, u, x)
      fy == persistent_find(fx.heap, fx.uf, y)
  IN [heap |-> fy.heap, uf |-> fy.uf, value |-> fx.value = fy.value]

\* PersistentUnionFind::size: self.size[self.find(x)]
persistent_size(heap, u, x) ==
  LET fx == persistent_find(heap, u, x)
  IN [heap |-> fx.heap, uf |-> fx.uf, value |-> fx.heap[fx.uf.size][fx.value]]

\* The structure named k: 1 is uf1, 2 is its clone uf2.
Puf(k) == IF k = 1 THEN puf1 ELSE puf2

\* The elements of the structure named k.
PufElems(k) == IF Puf(k) = EmptyMap THEN {} ELSE DOMAIN pheap[Puf(k).parent]

\* A call on the structure named k has left memory h and structure u and
\* returned r.
PufAfter(k, h, u, r) ==
  LET d == Dropped(h, <<IF k = 1 THEN u ELSE puf1, IF k = 2 THEN u ELSE puf2>>)
  IN /\ puf1' = d.uf1
     /\ puf2' = d.uf2
     /\ pheap' = d.heap
     /\ pret' = r

PufCallUnite(k, x, y) ==
  LET c == persistent_unite(pheap, Puf(k), x, y)
  IN PufAfter(k, c.heap, c.uf,
              [on |-> k, op |-> "unite", args |-> <<x, y>>, value |-> "unit"])

PufCallFind(k, x) ==
  LET c == persistent_find(pheap, Puf(k), x)
  IN PufAfter(k, c.heap, c.uf,
              [on |-> k, op |-> "find", args |-> <<x>>, value |-> c.value])

PufCallSame(k, x, y) ==
  LET c == persistent_same(pheap, Puf(k), x, y)
  IN PufAfter(k, c.heap, c.uf,
              [on |-> k, op |-> "same", args |-> <<x, y>>, value |-> c.value])

PufCallSize(k, x) ==
  LET c == persistent_size(pheap, Puf(k), x)
  IN PufAfter(k, c.heap, c.uf,
              [on |-> k, op |-> "size", args |-> <<x>>, value |-> c.value])

\* PersistentUnionFind::new(n)
persistent_new(n) ==
  /\ pheap = Put(Put(EmptyMap, 0, [i \in 0 .. n - 1 |-> i]),
                 1, [i \in 0 .. n - 1 |-> 1])
  /\ puf1 = [parent |-> 0, size |-> 1]
  /\ puf2 = EmptyMap
  /\ pret = [on |-> 1, op |-> "new", args |-> <<n>>, value |-> "unit"]

\* ---- a cloned PersistentUnionFind
PufUnite(k, x, y) == PufCallUnite(k, x, y) /\ UNCHANGED nonPufVars

PufFind(k, x) == PufCallFind(k, x) /\ UNCHANGED nonPufVars

PufSame(k, x, y) == PufCallSame(k, x, y) /\ UNCHANGED nonPufVars

PufSize(k, x) == PufCallSize(k, x) /\ UNCHANGED nonPufVars

\* let uf2 = uf1.clone(): the derived Clone copies the two vector
\* references, so uf2 shares uf1's vectors.
PufClone ==
  /\ puf2 = EmptyMap
  /\ puf2' = puf1
  /\ pret' = [on |-> 1, op |-> "clone", args |-> <<>>, value |-> "unit"]
  /\ UNCHANGED <<pheap, puf1>>
  /\ UNCHANGED nonPufVars

InitSnapshot ==
  /\ \E n \in 0 .. MaxSnapshot : persistent_new(n)
  /\ NonPufIdle

NextSnapshot ==
  \/ PufClone
  \/ \E k \in {1, 2} :
       \/ \E x, y \in PufElems(k) : PufUnite(k, x, y)
       \/ \E x \in PufElems(k) : PufFind(k, x)
       \/ \E x, y \in PufElems(k) : PufSame(k, x, y)
       \/ \E x \in PufElems(k) : PufSize(k, x)

SpecSnapshot == InitSnapshot /\ [][NextSnapshot]_vars

(***************************************************************************)
(* A UnionFind and a PersistentUnionFind given the same calls.  Up to     *)
(* MaxTogether elements every call is offered.  The two compress paths     *)
(* differently once a tree is three deep, which union by size allows from  *)
(* eight elements on: with MaxPersistent elements the unite calls offered  *)
(* are those that build such a tree (in any order, repeated) and the       *)
(* queries are about the first element and the last two.                   *)
(***************************************************************************)
nonBothVars == <<dagVars, treeVars, digitVars, cumVars, bitVars, graphVars, searchVars, imosVars, bvecVars>>

NonBothIdle ==
  DagIdle /\ TreeIdle /\ DigitIdle /\ CumIdle /\ BitIdle /\ GraphIdle /\ SearchIdle /\ ImosIdle /\ BvecIdle

\* The unite calls offered on n elements: all of them for a small n, else
\* the pairs <<x, x + 2^k>> with x a multiple of 2^(k+1).
Links(n) ==
  {<<x, y>> \in (0 .. n - 1) \X (0 .. n - 1) :
     \/ n <= MaxTogether
     \/ \E k \in 0 .. 3 : y = x + Pow2(k) /\ x % Pow2(k + 1) = 0}

\* The elements that find, same and size are asked about.
Probes(n) == {x \in 0 .. n - 1 : n <= MaxTogether \/ x = 0 \/ x >= n - 2}

BothUnite(x, y) ==
  /\ LET u == unite(parent, size, x, y)
     IN parent' = u.parent /\ size' = u.size
  /\ united' = [z \in DOMAIN united |->
                  IF z \in united[x] \cup united[y]
                    THEN united[x] \cup united[y] ELSE united[z]]
  /\ ret' = [op |-> "unite", args |-> <<x, y>>, value |-> "unit"]
  /\ PufCallUnite(1, x, y)
  /\ UNCHANGED redundant
  /\ UNCHANGED nonBothVars

BothFind(x) ==
  /\ LET f == find(parent, x)
     IN parent' = f.parent
        /\ ret' = [op |-> "find", args |-> <<x>>, value |-> f.root]
  /\ PufCallFind(1, x)
  /\ UNCHANGED <<size, united, redundant>>
  /\ UNCHANGED nonBothVars

BothSame(x, y) ==
  /\ LET r == same(parent, x, y)
     IN parent' = r.parent
        /\ ret' = [op |-> "same", args |-> <<x, y>>, value |-> r.value]
  /\ PufCallSame(1, x, y)
  /\ UNCHANGED <<size, united, redundant>>
  /\ UNCHANGED nonBothVars

BothSize(x) ==
  /\ LET r == size_of(parent, size, x)
     IN parent' = r.parent
        /\ ret' = [op |-> "size", args |-> <<x>>, value |-> r.value]
  /\ PufCallSize(1, x)
  /\ UNCHANGED <<size, united, redundant>>
  /\ UNCHANGED nonBothVars

\* UnionFind::new(n) and PersistentUnionFind::new(n)
InitBoth ==
  /\ \E n \in (0 .. MaxTogether) \cup {MaxPersistent} :
       /\ parent = [i \in 0 .. n - 1 |-> i]
       /\ size = [i \in 0 .. n - 1 |-> 1]
       /\ united = [i \in 0 .. n - 1 |-> {i}]
       /\ ret = [op |-> "new", args |-> <<n>>, value |-> "unit"]
       /\ persistent_new(n)
  /\ redundant = FALSE
  /\ NonBothIdle

NextBoth ==
  \/ \E l \in Links(Cardinality(DOMAIN parent)) : BothUnite(l[1], l[2])
  \/ \E x \in Probes(Cardinality(DOMAIN parent)) : BothFind(x)
  \/ \E x, y \in Probes(Cardinality(DOMAIN parent)) : BothSame(x, y)
  \/ \E x \in Probes(Cardinality(DOMAIN parent)) : BothSize(x)

SpecBoth == InitBoth /\ [][NextBoth]_vars

(***************************************************************************)
(* Properties of PersistentUnionFind.                                      *)
(***************************************************************************)
\* C16: given the same calls, a UnionFind and a PersistentUnionFind of the
\* same n return the same value from every find, same and size call.
C16_SameAnswers ==
  /\ pret.op = ret.op
  /\ pret.args = ret.args
  /\ pret.value = ret.value

\* C16 witness: a find has returned the same root from both, after which
\* the UnionFind has re-parented an element that the PersistentUnionFind
\* has left where it was.
C16_Witness ==
  /\ ret.op = "find"
  /\ pret.value = ret.value
  /\ parent # pheap[puf1.parent]

\* What same and size answer on a structure, for all arguments.
Answers(heap, u) ==
  [same |-> [x, y \in DOMAIN heap[u.parent] |->
               persistent_same(heap, u, x, y).value],
   size |-> [x \in DOMAIN heap[u.parent] |-> persistent_size(heap, u, x).value]]

\* C17: once uf2 = uf1.clone() exists, a unite, find, same or size call on
\* uf1 leaves every same and size answer of uf2 as it was, and a call on
\* uf2 leaves every answer of uf1 as it was.
C17_SnapshotIsolation ==
  [][(puf2 # EmptyMap /\ pret'.op # "clone") =>
       /\ pret'.on = 1 => Answers(pheap', puf2') = Answers(pheap, puf2)
       /\ pret'.on = 2 => Answers(pheap', puf1') = Answers(pheap, puf1)]_vars

\* C17 witness: uf1 and uf2 still share their size vector, uf1 has merged
\* two elements since the clone and uf2 has since been asked about them.
C17_Witness ==
  /\ puf2 # EmptyMap
  /\ pret.on = 2
  /\ pret.op = "same"
  /\ pret.value = FALSE
  /\ persistent_same(pheap, puf1, pret.args[1], pret.args[2]).value
  /\ Answers(pheap, puf1) # Answers(pheap, puf2)

(***************************************************************************)
(* Graph<I, EW, NW, T>: the builder shared by every graph type.  Vectors   *)
(* are functions on 0 .. len - 1; an adjacency list is a sequence.         *)
(***************************************************************************)
MaxKeys == 3        \* the keys given to a Directed graph are 1 .. MaxKeys
MaxTreeKeys == 2    \* the keys given to a Tree graph are 1 .. MaxTreeKeys
MaxGraphEdges == 3  \* most add_edge calls on one Directed graph
MaxTreeEdges == 2   \* most add_edge calls on one Tree graph

Keys == 1 .. MaxKeys

TreeKeys == 1 .. MaxTreeKeys

\* The key of test_preorder_nonexistent_start, never given to the builder.
AbsentKey == 999

\* The edge weight given to add_edge (an Option) and the node weight given
\* to add_weight_to_node.
EdgeWeight == {1}

NodeWeight == 42

\* Vec::len and Vec::push
VecLen(v) == Cardinality(DOMAIN v)

VecPush(v, x) == [i \in 0 .. VecLen(v) |-> IF i \in DOMAIN v THEN v[i] ELSE x]

\* The graph as one value.
TheGraph ==
  [coord_map |-> coord_map, reverse_map |-> reverse_map, nodes |-> nodes,
   adj |-> gadj]

\* Graph::new()
graph_new ==
  [coord_map |-> EmptyMap, reverse_map |-> EmptyMap, nodes |-> EmptyMap,
   adj |-> EmptyMap]

\* Graph::get_or_create_id: the index of key, made if there is none.
get_or_create_id(G, key) ==
  IF key \in DOMAIN G.coord_map THEN [graph |-> G, id |-> G.coord_map[key]]
  ELSE LET id == VecLen(G.reverse_map)
       IN [graph |-> [coord_map |-> Put(G.coord_map, key, id),
                      reverse_map |-> VecPush(G.reverse_map, key),
                      nodes |-> VecPush(G.nodes, {}),
                      adj |-> VecPush(G.adj, <<>>)],
           id |-> id]

\* Graph::add_edge
add_edge(G, from, to, weight) ==
  LET f == get_or_create_id(G, from)
      t == get_or_create_id(f.graph, to)
      H == t.graph
  IN [H EXCEPT !.adj[f.id] = Append(H.adj[f.id], <<t.id, weight>>)]

\* Graph::add_weight_to_node
add_weight_to_node(G, id, weight) ==
  LET c == get_or_create_id(G, id)
  IN [c.graph EXCEPT !.nodes[c.id] = {weight}]

\* The number of edges of the graph.
RECURSIVE EdgeCount(_, _)
EdgeCount(G, n) ==
  IF n = 0 THEN 0 ELSE Len(G.adj[n - 1]) + EdgeCount(G, n - 1)

GraphBecomes(G) ==
  /\ coord_map' = G.coord_map
  /\ reverse_map' = G.reverse_map
  /\ nodes' = G.nodes
  /\ gadj' = G.adj

\* A call of get_or_create_id by the caller; it returns the index.
GraphGetOrCreateId(key) ==
  /\ LET c == get_or_create_id(TheGraph, key)
     IN /\ GraphBecomes(c.graph)
        /\ gcall' = [op |-> "get_or_create_id", value |-> c.id]
  /\ UNCHANGED gtype
  /\ UNCHANGED nonGraphVars

GraphAddEdge(from, to, weight) ==
  /\ EdgeCount(TheGraph, VecLen(gadj)) <
       (IF gtype = "Tree" THEN MaxTreeEdges ELSE MaxGraphEdges)
  /\ GraphBecomes(add_edge(TheGraph, from, to, weight))
  /\ gcall' = [op |-> "add_edge", value |-> "unit"]
  /\ UNCHANGED gtype
  /\ UNCHANGED nonGraphVars

GraphAddWeight(id) ==
  /\ GraphBecomes(add_weight_to_node(TheGraph, id, NodeWeight))
  /\ gcall' = [op |-> "add_weight_to_node", value |-> "unit"]
  /\ UNCHANGED gtype
  /\ UNCHANGED nonGraphVars

(***************************************************************************)
(* The traversals of Graph<_, _, _, Tree>.  The caller's functions are     *)
(* those of the library's tests: dp sums the edge weights below the start  *)
(* (merge adds, add_node adds the edge to the par), preorder adds node  *)
(* weight, edge weight and par value, postorder counts the subtree.     *)
(* Each result carries the number of calls made to the caller's functions. *)
(***************************************************************************)
OrZero(o) == IF o = {} THEN 0 ELSE CHOOSE x \in o : TRUE

dp_merge(x, y) == x + y

dp_add_node(a, node, edge_weight) == OrZero(a) + OrZero(edge_weight)

calculate_pre(node, edge_weight, parent_value) ==
  OrZero(node) + OrZero(edge_weight) + OrZero(parent_value)

RECURSIVE SumOf(_)
SumOf(s) == IF s = <<>> THEN 0 ELSE Head(s) + SumOf(Tail(s))

calculate_post(node, edge_weight, child_results) == 1 + SumOf(child_results)

\* dfs_dp: the loop over adj[node] from its i-th entry on, then add_node.
RECURSIVE dfs_dp(_, _, _, _, _, _)
dfs_dp(G, node, par, parent_edge_weight, i, st) ==
  IF i > Len(G.adj[node])
    THEN [value |-> dp_add_node(st.child_result, G.nodes[node], parent_edge_weight),
          visited |-> st.visited,
          calls |-> st.calls + 1]
    ELSE LET child == G.adj[node][i][1]
             edge_weight == G.adj[node][i][2]
         IN IF {child} # par /\ child \notin st.visited
              THEN LET r == dfs_dp(G, child, {node}, edge_weight, 1,
                                   [child_result |-> {},
                                    visited |-> st.visited \cup {child},
                                    calls |-> st.calls])
                   IN dfs_dp(G, node, par, parent_edge_weight, i + 1,
                             IF st.child_result = {}
                               THEN [child_result |-> {r.value},
                                     visited |-> r.visited,
                                     calls |-> r.calls]
                               ELSE [child_result |->
                                       {dp_merge(OrZero(st.child_result), r.value)},
                                     visited |-> r.visited,
                                     calls |-> r.calls + 1])
              ELSE dfs_dp(G, node, par, parent_edge_weight, i + 1, st)

\* TreeDP::dp
dp(G, start) ==
  IF start \notin DOMAIN G.coord_map THEN [value |-> {}, calls |-> 0]
  ELSE LET start_id == G.coord_map[start]
           r == dfs_dp(G, start_id, {}, {}, 1,
                       [child_result |-> {}, visited |-> {start_id},
                        calls |-> 0])
       IN [value |-> {r.value}, calls |-> r.calls]

\* dfs_preorder: the loop over adj[node] from its i-th entry on; the node's
\* own value is in the result already.
RECURSIVE dfs_preorder(_, _, _, _, _)
dfs_preorder(G, node, par, i, st) ==
  IF i > Len(G.adj[node]) THEN st
  ELSE LET child == G.adj[node][i][1]
           edge_weight == G.adj[node][i][2]
           value == calculate_pre(G.nodes[child], edge_weight,
                                  {st.result[G.reverse_map[node]]})
       IN IF {child} # par /\ child \notin st.visited
            THEN dfs_preorder(G, node, par, i + 1,
                   dfs_preorder(G, child, {node}, 1,
                     [result |-> Put(st.result, G.reverse_map[child], value),
                      visited |-> st.visited \cup {child},
                      calls |-> st.calls + 1]))
            ELSE dfs_preorder(G, node, par, i + 1, st)

\* Mutant of preorder: a start that is no node gets an entry all the same.
preorderDefaultEntry(G, start) ==
  IF start \notin DOMAIN G.coord_map
    THEN [value |-> Put(EmptyMap, start, 0), calls |-> 0]
  ELSE LET start_id == G.coord_map[start]
           r == dfs_preorder(G, start_id, {}, 1,
                  [result |-> Put(EmptyMap, start,
                                  calculate_pre(G.nodes[start_id], {}, {})),
                   visited |-> {start_id}, calls |-> 1])
       IN [value |-> r.result, calls |-> r.calls]

\* TreePreorder::preorder
preorder(G, start) ==
  IF start \notin DOMAIN G.coord_map THEN [value |-> EmptyMap, calls |-> 0]
  ELSE LET start_id == G.coord_map[start]
           r == dfs_preorder(G, start_id, {}, 1,
                  [result |-> Put(EmptyMap, start,
                                  calculate_pre(G.nodes[start_id], {}, {})),
                   visited |-> {start_id}, calls |-> 1])
       IN [value |-> r.result, calls |-> r.calls]

\* dfs_postorder: the loop over adj[node] from its i-th entry on, then
\* calculate and the insertion of the node's value.
RECURSIVE dfs_postorder(_, _, _, _, _, _)
dfs_postorder(G, node, par, parent_edge_weight, i, st) ==
  IF i > Len(G.adj[node])
    THEN LET value == calculate_post(G.nodes[node], parent_edge_weight,
                                     st.child_results)
         IN [value |-> value,
             result |-> Put(st.result, G.reverse_map[node], value),
             visited |-> st.visited,
             calls |-> st.calls + 1]
    ELSE LET child == G.adj[node][i][1]
             edge_weight == G.adj[node][i][2]
         IN IF {child} # par /\ child \notin st.visited
              THEN LET r == dfs_postorder(G, child, {node}, edge_weight, 1,
                              [child_results |-> <<>>, result |-> st.result,
                               visited |-> st.visited \cup {child},
                               calls |-> st.calls])
                   IN dfs_postorder(G, node, par, parent_edge_weight, i + 1,
                        [child_results |-> Append(st.child_results, r.value),
                         result |-> r.result, visited |-> r.visited,
                         calls |-> r.calls])
              ELSE dfs_postorder(G, node, par, parent_edge_weight, i + 1, st)

\* TreePostorder::postorder
postorder(G, start) ==
  IF start \notin DOMAIN G.coord_map THEN [value |-> EmptyMap, calls |-> 0]
  ELSE LET start_id == G.coord_map[start]
           r == dfs_postorder(G, start_id, {}, {}, 1,
                  [child_results |-> <<>>, result |-> EmptyMap,
                   visited |-> {start_id}, calls |-> 0])
       IN [value |-> r.result, calls |-> r.calls]

\* A query leaves the graph as it is (&self).
GraphAnswers(r) ==
  /\ gcall' = r
  /\ UNCHANGED <<gtype, coord_map, reverse_map, nodes, gadj>>
  /\ UNCHANGED nonGraphVars

GraphDp(start) ==
  LET r == dp(TheGraph, start)
  IN GraphAnswers([op |-> "dp", start |-> start, value |-> r.value,
                   calls |-> r.calls])

GraphPreorder(start) ==
  LET r == preorder(TheGraph, start)
  IN GraphAnswers([op |-> "preorder", start |-> start, value |-> r.value,
                   calls |-> r.calls])

GraphPostorder(start) ==
  LET r == postorder(TheGraph, start)
  IN GraphAnswers([op |-> "postorder", start |-> start, value |-> r.value,
                   calls |-> r.calls])

\* Graph::<_, _, _, Tree>::new()
InitTreeGraph ==
  /\ gtype = "Tree"
  /\ coord_map = EmptyMap
  /\ reverse_map = EmptyMap
  /\ nodes = EmptyMap
  /\ gadj = EmptyMap
  /\ gcall = [op |-> "new", value |-> "unit"]
  /\ NonGraphIdle

NextTreeGraph ==
  \/ \E from, to \in TreeKeys : GraphAddEdge(from, to, EdgeWeight)
  \/ \E id \in TreeKeys : GraphAddWeight(id)
  \/ \E key \in TreeKeys : GraphGetOrCreateId(key)
  \/ \E start \in TreeKeys \cup {AbsentKey} : GraphDp(start)
  \/ \E start \in TreeKeys \cup {AbsentKey} : GraphPreorder(start)
  \/ \E start \in TreeKeys \cup {AbsentKey} : GraphPostorder(start)

SpecTreeGraph == InitTreeGraph /\ [][NextTreeGraph]_vars

(***************************************************************************)
(* Properties of the tree traversals.                                      *)
(***************************************************************************)
\* C18: when the start key is no node of the graph, dp returns None and
\* preorder and postorder return an empty map, and none of them has called
\* merge, add_node or calculate.
C18_AbsentStartGivesNothing ==
  (gcall.op \in {"dp", "preorder", "postorder"}
     /\ gcall.start \notin DOMAIN coord_map) =>
    /\ gcall.calls = 0
    /\ gcall.op = "dp" => gcall.value = {}
    /\ gcall.op \in {"preorder", "postorder"} => gcall.value = EmptyMap

\* C18 witness: preorder has returned an empty map for a key that is no
\* node of a graph which has nodes and edges.
C18_Witness ==
  /\ gcall.op = "preorder"
  /\ gcall.start \notin DOMAIN coord_map
  /\ gcall.value = EmptyMap
  /\ VecLen(nodes) = 2
  /\ Len(gadj[0]) = 1
  /\ nodes[1] # {}

(***************************************************************************)
(* Graph<_, _, _, Directed>::to_dsu (Kosaraju's two passes).               *)
(***************************************************************************)
\* Graph::dfs1: the loop over adj[node] from its i-th entry on, then the push of
\* node onto finish_order.
RECURSIVE dsu_dfs1(_, _, _, _)
dsu_dfs1(G, node, i, st) ==
  IF i > Len(G.adj[node])
    THEN [visited |-> st.visited,
          finish_order |-> Append(st.finish_order, node)]
    ELSE LET next == G.adj[node][i][1]
         IN IF next \notin st.visited
              THEN dsu_dfs1(G, node, i + 1,
                        dsu_dfs1(G, next, 1,
                             [visited |-> st.visited \cup {next},
                              finish_order |-> st.finish_order]))
              ELSE dsu_dfs1(G, node, i + 1, st)

\* Step 1: for i in 0..n, a dfs1 from every node not yet visited.
RECURSIVE FinishOrder(_, _, _)
FinishOrder(G, i, st) ==
  IF i >= VecLen(G.nodes) THEN st.finish_order
  ELSE IF i \notin st.visited
    THEN FinishOrder(G, i + 1,
                     dsu_dfs1(G, i, 1, [visited |-> st.visited \cup {i},
                                    finish_order |-> st.finish_order]))
    ELSE FinishOrder(G, i + 1, st)

\* Mutant of Transposed: the edges keep their direction.
RECURSIVE TransposedForward(_, _, _, _)
TransposedForward(G, from, i, t) ==
  IF from >= VecLen(G.nodes) THEN t
  ELSE IF i > Len(G.adj[from]) THEN TransposedForward(G, from + 1, 1, t)
  ELSE LET to == G.adj[from][i][1]
       IN TransposedForward(G, from, i + 1,
                            [t EXCEPT ![from] = Append(t[from], to)])

\* Step 2: transposed_adj[to].push(from) for every edge, from the i-th
\* entry of adj[from] on.
RECURSIVE Transposed(_, _, _, _)
Transposed(G, from, i, t) ==
  IF from >= VecLen(G.nodes) THEN t
  ELSE IF i > Len(G.adj[from]) THEN Transposed(G, from + 1, 1, t)
  ELSE LET to == G.adj[from][i][1]
       IN Transposed(G, from, i + 1, [t EXCEPT ![to] = Append(t[to], from)])

\* Graph::dfs2: node is in the component already; the loop over
\* transposed_adj[node] from its i-th entry on.
RECURSIVE dsu_dfs2(_, _, _, _)
dsu_dfs2(t, node, i, st) ==
  IF i > Len(t[node]) THEN st
  ELSE LET next == t[node][i]
       IN IF next \notin st.visited
            THEN dsu_dfs2(t, node, i + 1,
                      dsu_dfs2(t, next, 1,
                           [visited |-> st.visited \cup {next},
                            component |-> Append(st.component, next)]))
            ELSE dsu_dfs2(t, node, i + 1, st)

\* for &other in component.iter().skip(1) { dsu.unite(component[0], other) }
RECURSIVE UniteAll(_, _, _)
UniteAll(component, j, dsu) ==
  IF j > Len(component) THEN dsu
  ELSE UniteAll(component, j + 1,
                unite(dsu.parent, dsu.size, component[1], component[j]))

\* Step 3: for &node in finish_order.iter().rev(), from the k-th entry down.
RECURSIVE Components(_, _, _, _)
Components(t, finish_order, k, st) ==
  IF k = 0 THEN st.dsu
  ELSE LET node == finish_order[k]
       IN IF node \notin st.visited
            THEN LET c == dsu_dfs2(t, node, 1,
                               [visited |-> st.visited \cup {node},
                                component |-> <<node>>])
                 IN Components(t, finish_order, k - 1,
                               [visited |-> c.visited,
                                dsu |-> UniteAll(c.component, 2, st.dsu)])
            ELSE Components(t, finish_order, k - 1, st)

\* Graph::to_dsu
to_dsu(G) ==
  LET n == VecLen(G.nodes)
      new == [parent |-> [i \in 0 .. n - 1 |-> i],
              size |-> [i \in 0 .. n - 1 |-> 1]]
  IN IF n = 0 THEN new
     ELSE LET finish_order ==
                FinishOrder(G, 0, [visited |-> {}, finish_order |-> <<>>])
              transposed_adj ==
                Transposed(G, 0, 1, [i \in 0 .. n - 1 |-> <<>>])
          IN Components(transposed_adj, finish_order, Len(finish_order),
                        [visited |-> {}, dsu |-> new])

GraphToDsu ==
  /\ gcall' = [op |-> "to_dsu", value |-> to_dsu(TheGraph)]
  /\ UNCHANGED <<gtype, coord_map, reverse_map, nodes, gadj>>
  /\ UNCHANGED nonGraphVars

\* Graph::<_, _, _, Directed>::new()
InitDirected ==
  /\ gtype = "Directed"
  /\ coord_map = EmptyMap
  /\ reverse_map = EmptyMap
  /\ nodes = EmptyMap
  /\ gadj = EmptyMap
  /\ gcall = [op |-> "new", value |-> "unit"]
  /\ NonGraphIdle

\* The edges carry no weight, as in the library's to_dsu tests.
NextDirected ==
  \/ \E from, to \in Keys : GraphAddEdge(from, to, {})
  \/ \E key \in Keys : GraphGetOrCreateId(key)
  \/ GraphToDsu

SpecDirected == InitDirected /\ [][NextDirected]_vars

(***************************************************************************)
(* Properties of to_dsu.                                                   *)
(***************************************************************************)
\* The node indices reachable from those of S along edges of the graph.
RECURSIVE ReachableFrom(_)
ReachableFrom(S) ==
  LET T == S \cup UNION {{gadj[x][i][1] : i \in 1 .. Len(gadj[x])} : x \in S}
  IN IF T = S THEN S ELSE ReachableFrom(T)

\* C20: in the UnionFind that to_dsu returns, two node indices are in the
\* same set exactly when each is reachable from the other.
C20_SameSetIffMutuallyReachable ==
  gcall.op = "to_dsu" =>
    /\ DOMAIN gcall.value.parent = DOMAIN nodes
    /\ \A x, y \in DOMAIN nodes :
         same(gcall.value.parent, x, y).value <=>
           (y \in ReachableFrom({x}) /\ x \in ReachableFrom({y}))

\* C20 witness: to_dsu has returned for three nodes of which 0 and 1 lie on
\* a cycle and 2 is reachable from them without a way back.
C20_Witness ==
  /\ gcall.op = "to_dsu"
  /\ VecLen(nodes) = 3
  /\ same(gcall.value.parent, 0, 1).value
  /\ ~same(gcall.value.parent, 0, 2).value
  /\ 2 \in ReachableFrom({0})

(***************************************************************************)
(* Further properties of AllDirectionTreeDP.                               *)
(***************************************************************************)
\* C19: for the empty input (n = 0, no edges) solve does not panic, and
\* what it returns is the empty vector.
C19_EmptyInputReturnsEmpty ==
  tree # EmptyMap /\ tree.n = 0 =>
    /\ tpc # "panic"
    /\ tpc = "done" => ans = EmptyMap

(***************************************************************************)
(* MemoizedDFS::search.  The recursion of the inner dfs is kept as a stack *)
(* of calls, each with its node and its place in the loop over             *)
(* successors (0: the call has not yet tried visited.insert).              *)
(***************************************************************************)
MaxSearchNodes == 3  \* the nodes of a search problem are 0 .. MaxSearchNodes - 1
MaxSuccessors == 2   \* longest list successors may return

SearchNodes == 0 .. MaxSearchNodes - 1

\* The problems: a successors list per node and the set of goal nodes.
SearchGraphs == [SearchNodes -> SeqsUpTo(SearchNodes, MaxSuccessors)]

\* Searchable::collect of the problems searched: the answer is not the node.
collect(node) == 100 + node

\* Mutant of visited_insert: every node counts as new.
visited_insertAlways(visited, node) == TRUE

\* visited.insert(current): TRUE when current was not in the set.
visited_insert(visited, node) == node \notin visited

\* dfs up to its loop: a node met before returns false; a new node is
\* marked, a goal has its answer pushed, and with return_on_first a goal
\* makes this call and all its callers return true.
SearchEnter ==
  /\ spc = "run"
  /\ sstack # <<>>
  /\ LET top == sstack[Len(sstack)]
         current == top.node
         rest == SubSeq(sstack, 1, Len(sstack) - 1)
         goal == current \in sproblem.goals
     IN /\ top.i = 0
        /\ IF ~visited_insert(svisited, current)
             THEN /\ sstack' = rest
                  /\ spc' = IF rest = <<>> THEN "done" ELSE "run"
                  /\ UNCHANGED <<svisited, sresult, sentered>>
             ELSE /\ svisited' = svisited \cup {current}
                  /\ sentered' = [sentered EXCEPT ![current] = @ + 1]
                  /\ sresult' = IF goal THEN Append(sresult, collect(current))
                                ELSE sresult
                  /\ IF goal /\ sproblem.first
                       THEN sstack' = <<>> /\ spc' = "done"
                       ELSE /\ sstack' = Append(rest, [node |-> current, i |-> 1])
                            /\ spc' = "run"
  /\ UNCHANGED sproblem
  /\ UNCHANGED nonSearchVars

\* The loop of dfs: the next successor is searched by a new call, and after
\* the last one the call returns false.
SearchLoop ==
  /\ spc = "run"
  /\ sstack # <<>>
  /\ LET top == sstack[Len(sstack)]
         succs == sproblem.successors[top.node]
         rest == SubSeq(sstack, 1, Len(sstack) - 1)
     IN /\ top.i > 0
        /\ IF top.i > Len(succs)
             THEN /\ sstack' = rest
                  /\ spc' = IF rest = <<>> THEN "done" ELSE "run"
             ELSE /\ sstack' = Append(rest, [node |-> top.node, i |-> top.i + 1])
                               \o <<[node |-> succs[top.i], i |-> 0]>>
                  /\ spc' = "run"
  /\ UNCHANGED <<sproblem, svisited, sresult, sentered>>
  /\ UNCHANGED nonSearchVars

\* MemoizedDFS::search(start, &problem, return_on_first), about to call dfs.
InitSearch ==
  /\ \E g \in SearchGraphs, goals \in SUBSET SearchNodes, first \in BOOLEAN :
       sproblem = [successors |-> g, goals |-> goals, first |-> first, start |-> 0]
  /\ svisited = {}
  /\ sresult = <<>>
  /\ sstack = <<[node |-> 0, i |-> 0]>>
  /\ sentered = [n \in SearchNodes |-> 0]
  /\ spc = "run"
  /\ NonSearchIdle

NextSearch == SearchEnter \/ SearchLoop

\* A running call always takes its next step.
SpecSearch == InitSearch /\ [][NextSearch]_vars /\ WF_vars(NextSearch)

(***************************************************************************)
(* Properties of MemoizedDFS::search.                                      *)
(***************************************************************************)
\* The nodes reachable from those of S along successors.
RECURSIVE SearchReachable(_)
SearchReachable(S) ==
  LET T == S \cup UNION {Range(sproblem.successors[x]) : x \in S}
  IN IF T = S THEN S ELSE SearchReachable(T)

\* C21: with return_on_first = false no node gets past visited.insert more
\* than once, the search returns on every graph, cyclic ones included, and
\* the vector it returns holds collect(g) exactly once for every goal g
\* reachable from start, and nothing else.
C21_EachNodeOnceThenAllGoals ==
  /\ [](sproblem.first = FALSE => \A n \in SearchNodes : sentered[n] <= 1)
  /\ (sproblem.first = FALSE) ~> (spc = "done")
  /\ []((spc = "done" /\ sproblem.first = FALSE) =>
          LET goals == SearchReachable({sproblem.start}) \cap sproblem.goals
          IN /\ Len(sresult) = Cardinality(goals)
             /\ \A g \in goals :
                  Cardinality({i \in 1 .. Len(sresult) :
                                 sresult[i] = collect(g)}) = 1)

\* C21 witness: a search for all goals has returned two answers on a graph
\* in which the start lies on a cycle and every node has been visited.
C21_Witness ==
  /\ spc = "done"
  /\ sproblem.first = FALSE
  /\ Len(sresult) = 2
  /\ 0 \in Range(sproblem.successors[1])
  /\ 1 \in Range(sproblem.successors[0])
  /\ 2 \in Range(sproblem.successors[1])
  /\ svisited = SearchNodes

(***************************************************************************)
(* Imos1D.  Its cells are i64; a value q * 2^62 + r is kept as the pair    *)
(* (q, r), with r small, so that the ends of the i64 range can be written: *)
(* i64::MIN is (-2, 0) and i64::MAX is (2, -1).                            *)
(***************************************************************************)
MaxImos == 2       \* largest n given to Imos1D::new
MaxAdds == 2       \* most add calls on one Imos1D
MaxBuilds == 2     \* most build calls on one Imos1D

I64(q, r) == [q |-> q, r |-> r]

\* The values given to add: i64::MIN, -1, 1, i64::MAX.
ImosValues == {I64(-2, 0), I64(0, -1), I64(0, 1), I64(2, -1)}

\* Exact sum and difference.
I64Plus(a, b) == I64(a.q + b.q, a.r + b.r)

I64Minus(a, b) == I64(a.q - b.q, a.r - b.r)

\* -2^63 <= v <= 2^63 - 1
I64Fits(v) ==
  \/ v.q \in {-1, 0, 1}
  \/ v.q = 2 /\ v.r < 0
  \/ v.q = -2 /\ v.r >= 0

\* Two's complement wrap-around of i64: 2^64 is 4 * 2^62.
I64Wrap(v) ==
  IF I64Fits(v) THEN v
  ELSE IF v.q > 0 THEN I64(v.q - 4, v.r) ELSE I64(v.q + 4, v.r)

\* The state of an Imos1D while a call runs: its data, whether the call has
\* panicked, whether an operation has wrapped around.
ImosState(d, panic, wrapped) == [data |-> d, panic |-> panic, wrapped |-> wrapped]

\* self.data[i] = v for an operation whose exact result is v: a panic with
\* overflow checks when v is no i64, the wrapped value without them.
ImosStore(st, i, v, checks) ==
  IF st.panic THEN st
  ELSE IF I64Fits(v) THEN [st EXCEPT !.data[i] = v]
  ELSE IF checks THEN [st EXCEPT !.panic = TRUE]
  ELSE [st EXCEPT !.data[i] = I64Wrap(v), !.wrapped = TRUE]

\* Imos1D::new
imos_new(n) == [i \in 0 .. n |-> I64(0, 0)]

\* Mutant of imos_add: the end of the interval is not marked.
imos_addNoEnd(d, l, r, x, checks) ==
  IF l < VecLen(d)
    THEN ImosStore(ImosState(d, FALSE, FALSE), l, I64Plus(d[l], x), checks)
    ELSE ImosState(d, FALSE, FALSE)

\* Imos1D::add
imos_add(d, l, r, x, checks) ==
  LET s1 == IF l < VecLen(d)
              THEN ImosStore(ImosState(d, FALSE, FALSE), l,
                             I64Plus(d[l], x), checks)
              ELSE ImosState(d, FALSE, FALSE)
  IN IF ~s1.panic /\ r < VecLen(d)
       THEN ImosStore(s1, r, I64Minus(s1.data[r], x), checks)
       ELSE s1

\* The loop of build from index i on.
RECURSIVE BuildFrom(_, _, _)
BuildFrom(st, i, checks) ==
  IF st.panic \/ i >= VecLen(st.data) THEN st
  ELSE BuildFrom(ImosStore(st, i, I64Plus(st.data[i], st.data[i - 1]), checks),
                 i + 1, checks)

\* Vec::pop: the last element is dropped, an empty vector stays empty.
VecPop(v) == [i \in DOMAIN v \ {VecLen(v) - 1} |-> v[i]]

\* Imos1D::build: the prefix sums in place, the pop, and the vector that is
\* returned (a clone of self.data).
imos_build(d, checks) ==
  LET st == BuildFrom(ImosState(d, FALSE, FALSE), 1, checks)
  IN IF st.panic THEN st ELSE [st EXCEPT !.data = VecPop(st.data)]

\* What a call that ended in state st leaves behind; a call that panics
\* leaves the cells it had written before the panic.
ImosAfter(st) ==
  /\ imos_pc' = IF st.panic THEN "panic"
                ELSE IF st.wrapped THEN "wrapped" ELSE imos_pc
  /\ imos_data' = st.data

ImosAdd(l, r, x) ==
  /\ imos_pc \in {"ready", "wrapped"}
  /\ Len(imos_adds) < MaxAdds
  /\ LET st == imos_add(imos_data, l, r, x, imos_overflow_checks)
     IN /\ ImosAfter(st)
        /\ imos_ret' = [op |-> "add", value |-> IF st.panic THEN {} ELSE {"unit"}]
  /\ imos_adds' = Append(imos_adds, <<l, r, x>>)
  /\ UNCHANGED <<imos_n, imos_builds, imos_overflow_checks>>
  /\ UNCHANGED nonImosVars

ImosBuild ==
  /\ imos_pc \in {"ready", "wrapped"}
  /\ imos_builds < MaxBuilds
  /\ LET st == imos_build(imos_data, imos_overflow_checks)
     IN /\ ImosAfter(st)
        /\ imos_ret' = [op |-> "build", value |-> IF st.panic THEN {} ELSE {st.data}]
        /\ imos_builds' = IF st.panic THEN imos_builds ELSE imos_builds + 1
  /\ UNCHANGED <<imos_n, imos_adds, imos_overflow_checks>>
  /\ UNCHANGED nonImosVars

\* Imos1D::new(n)
InitImos ==
  /\ \E n \in 0 .. MaxImos :
       /\ imos_n = n
       /\ imos_data = imos_new(n)
  /\ imos_adds = <<>>
  /\ imos_builds = 0
  /\ imos_ret = [op |-> "new", value |-> {"unit"}]
  /\ imos_pc = "ready"
  /\ imos_overflow_checks \in BOOLEAN
  /\ NonImosIdle

\* The add calls offered are those with 0 <= l <= r <= n.
NextImos ==
  \/ \E l, r \in 0 .. imos_n, x \in ImosValues : l <= r /\ ImosAdd(l, r, x)
  \/ ImosBuild

SpecImos == InitImos /\ [][NextImos]_vars

\* The exact value of cell j of the difference array after the first k add
\* calls of the history: + x for an interval that starts at j, - x for one
\* that ends at j.
RECURSIVE DiffAt(_, _, _)
DiffAt(adds, k, j) ==
  IF k = 0 THEN I64(0, 0)
  ELSE LET a == adds[k]
           d0 == DiffAt(adds, k - 1, j)
           d1 == IF a[1] = j THEN I64Plus(d0, a[3]) ELSE d0
       IN IF a[2] = j THEN I64Minus(d1, a[3]) ELSE d1

\* The exact sum of x over the first k add calls whose interval [l, r)
\* contains i.
RECURSIVE CoverSum(_, _, _)
CoverSum(adds, k, i) ==
  IF k = 0 THEN I64(0, 0)
  ELSE LET a == adds[k]
       IN IF a[1] <= i /\ i < a[2]
            THEN I64Plus(CoverSum(adds, k - 1, i), a[3])
            ELSE CoverSum(adds, k - 1, i)

\* The k-th add call, made before any build, leaves the i64 range in its
\* addition or in its subtraction.
AddOverflows(adds, k) ==
  LET a == adds[k]
      atL == I64Plus(DiffAt(adds, k - 1, a[1]), a[3])
      atR == IF a[1] = a[2] THEN atL ELSE DiffAt(adds, k - 1, a[2])
  IN ~I64Fits(atL) \/ ~I64Fits(I64Minus(atR, a[3]))

\* A prefix sum of the first build leaves the i64 range.
BuildOverflows(adds, n) ==
  \E i \in 1 .. n : ~I64Fits(CoverSum(adds, Len(adds), i))

\* The first build has just returned.
FirstBuildReturned ==
  /\ imos_builds = 1
  /\ imos_ret.op = "build"
  /\ imos_ret.value # {}

\* The claim as stated, for histories whose sums are all i64 values: no
\* call up to the first build panics, and the first build returns the sums
\* of x over the intervals that contain i.
C22_FirstBuildGivesCoveringSums ==
  (\A i \in 0 .. imos_n : I64Fits(CoverSum(imos_adds, Len(imos_adds), i))) =>
    /\ imos_builds = 0 => imos_pc # "panic"
    /\ FirstBuildReturned =>
         \A v \in imos_ret.value : \A i \in 0 .. imos_n - 1 :
           i \in DOMAIN v /\ v[i] = CoverSum(imos_adds, Len(imos_adds), i)

\* C22 as amended: after new(n) and add calls with 0 <= l <= r <= n, the
\* first build returns a vector v of length n with v[i] the sum of x over the
\* add calls whose interval [l, r) contains i, in wrapping i64 arithmetic;
\* a call up to the first build panics only in a build with overflow checks,
\* and only when its own addition or subtraction (add) or one of its prefix
\* sums (build) overflows i64.
C22_CoveringSumsUnlessOverflow ==
  /\ FirstBuildReturned =>
       \A v \in imos_ret.value :
         /\ DOMAIN v = 0 .. imos_n - 1
         /\ \A i \in 0 .. imos_n - 1 :
              v[i] = I64Wrap(CoverSum(imos_adds, Len(imos_adds), i))
  /\ (imos_builds = 0 /\ imos_pc = "panic") =>
       /\ imos_overflow_checks
       /\ imos_ret.op = "add" => AddOverflows(imos_adds, Len(imos_adds))
       /\ imos_ret.op = "build" => BuildOverflows(imos_adds, imos_n)
       /\ imos_ret.op \in {"add", "build"}

\* C22 witness: in a build with overflow checks, the first build of an
\* Imos1D of two cells has returned after two add calls, with different
\* non-zero sums in its two cells.
C22_Witness ==
  /\ FirstBuildReturned
  /\ imos_overflow_checks
  /\ imos_n = 2
  /\ Len(imos_adds) = 2
  /\ \A v \in imos_ret.value :
       /\ v[0] # I64(0, 0)
       /\ v[1] # I64(0, 0)
       /\ v[0] # v[1]

\* C23 as stated: every build that returns, returns a vector of length n,
\* the n given to new.
C23_BuildReturnsLengthN ==
  (imos_ret.op = "build" /\ imos_ret.value # {}) =>
    \A v \in imos_ret.value : VecLen(v) = imos_n

\* The place of state s in the discovery order.
FoundAt(s) == CHOOSE i \in 1 .. Len(found) : found[i] = s

\* State s comes before state t in the order of the claim: s has the
\* smaller rank, or the same rank and was discovered first.
Before(s, t) ==
  \/ rank(s) < rank(t)
  \/ rank(s) = rank(t) /\ FoundAt(s) < FoundAt(t)

\* C24: a pull engine processes the states in non-decreasing rank order and
\* states of equal rank in the order of their discovery: whenever a state
\* gets its value, every state that has a value already comes before it and
\* every discovered state that is still without one comes after it.
C24_AscendingRankThenDiscoveryOrder ==
  [][\A s \in DOMAIN val' \ DOMAIN val :
       /\ \A t \in DOMAIN val : Before(t, s)
       /\ \A t \in seen \ DOMAIN val' : Before(s, t)]_vars

\* C24 witness: a finished run that processed both states of rank 1, state
\* 2 discovered before state 1, and the state of rank 0, discovered last.
C24_Witness ==
  /\ pc = "done"
  /\ DOMAIN val = {0, 1, 2}
  /\ FoundAt(2) < FoundAt(1)
  /\ FoundAt(1) < FoundAt(0)

\* The accumulator of state s in the mapping v: its entry, if it has one.
Accumulator(v, s) == IF s \in DOMAIN v THEN {v[s]} ELSE {}

\* The states whose value the propagation loop has read, the one the
\* current step reads included.
Processed ==
  IF pc = "eval"
    THEN {Order(buckets)[i] :
            i \in 1 .. IF cursor <= Len(Order(buckets)) THEN cursor
                       ELSE Len(Order(buckets))}
  ELSE IF pc = "done" THEN Range(Order(buckets)) ELSE {}

\* C25: in a propagation whose successors all have a strictly larger rank
\* than their source, no step changes the accumulator of a state from the
\* step on in which the state's value is read and pushed along its edges.
C25_ProcessedAccumulatorIsFinal ==
  [][\A s \in Processed : Accumulator(val', s) = Accumulator(val, s)]_vars

\* C25 witness: a finished propagation in which state 3 got contributions
\* from both states of rank 1, which had taken theirs from state 0, and
\* holds a value other than the identity.
C25_Witness ==
  /\ pc = "done"
  /\ engine = "PushDpEngine"
  /\ {0, 1, 2} \subseteq DOMAIN adj
  /\ {1, 2} \subseteq Range(adj[0])
  /\ 3 \in Range(adj[1]) \cap Range(adj[2])
  /\ 3 \in DOMAIN val
  /\ val[3] # identity(ctx)

\* The value the claim gives a state s of the mapping v: its entry, the
\* identity when it has none.
FinalOf(c, v, s) == IF s \in DOMAIN v THEN v[s] ELSE identity(c)

\* acc folded with trans(s, t, final value of s) for every discovered state
\* s from state number s on and every occurrence of t in succs(s) from
\* index i on, the states taken by their number.
RECURSIVE FoldContributions(_, _, _, _, _, _, _)
FoldContributions(c, v, disc, t, s, i, acc) ==
  IF s \notin States THEN acc
  ELSE IF s \notin disc \/ i > Len(c.nbrs[s])
    THEN FoldContributions(c, v, disc, t, s + 1, 1, acc)
  ELSE FoldContributions(c, v, disc, t, s, i + 1,
         IF c.nbrs[s][i] = t
           THEN op(c, acc, trans(c, s, t, FinalOf(c, v, s)))
           ELSE acc)

\* The seed of t: init(t) when Some, the identity otherwise.
SeedOf(c, t) ==
  IF init(c, t) # {} THEN CHOOSE x \in init(c, t) : TRUE ELSE identity(c)

\* C26: for a valid rank function and a commutative, associative op with
\* identity, the value propagate returns for a state t is the op-fold of
\* its seed with trans(s, t, final value of s), once for every discovered
\* state s and every occurrence of t in succs(s).
C26_ValueIsFoldOfContributions ==
  (pc = "done" /\ Commutative(ctx.monoid)) =>
    \A t \in DOMAIN val :
      val[t] = FoldContributions(ctx, val, seen, t, 0, 1, SeedOf(ctx, t))

\* C26 witness: a finished propagation over a commutative monoid, with
\* seeded states, in which state 2 was processed before state 1 and both
\* gave state 3 a contribution, state 1 twice.
C26_Witness ==
  /\ pc = "done"
  /\ engine = "PushDpEngine"
  /\ Commutative(ctx.monoid)
  /\ ctx.seeds # {}
  /\ {1, 2} \subseteq seen
  /\ FoundAt(2) < FoundAt(1)
  /\ adj[1] = <<3, 3>>
  /\ 3 \in Range(adj[2])
  /\ val[3] # identity(ctx)

\* C27: an evaluation of a plan leaves its buckets and its adjacency map
\* as they are and calls neither rank nor neighbors, and every evaluation
\* of the plan with the same rules returns the mapping the first one
\* returned, which is the mapping of PullDpEngine::solve.
C27_PlanUnchangedAndReusable ==
  /\ [][(pc = "eval" \/ pc = "done") =>
          /\ buckets' = buckets
          /\ adj' = adj
          /\ ncalls' = ncalls
          /\ nrank' = nrank]_vars
  /\ [](\A i \in 1 .. Len(evals) : evals[i] = evals[1])

\* C27 witness: the second evaluation of a plan has returned a mapping with
\* a base value and a value combined from two different neighbours.
C27_Witness ==
  /\ pc = "done"
  /\ Len(evals) = 2
  /\ \E s \in DOMAIN evals[2] : base(ctx, s) # {}
  /\ \E s \in DOMAIN evals[2] :
       /\ base(ctx, s) = {}
       /\ Len(adj[s]) = 2
       /\ adj[s][1] # adj[s][2]
       /\ evals[2][s] = combine(s, <<evals[2][adj[s][1]], evals[2][adj[s][2]]>>)

\* C28: the mapping a pull engine returns for rules that keep the rank
\* invariant is the mapping it returns for every rearrangement of the
\* roots sequence.
C28_RootsOrderIndependent ==
  pc = "done" =>
    \A rs \in PermsOf(roots) :
      solve(engine, ctx, rs) = [panic |-> FALSE, val |-> val]

\* C28 witness: a finished run from the two states of rank 1 as roots, both
\* with neighbours; with the roots exchanged the states are discovered, and
\* so evaluated, in another order.
C28_Witness ==
  /\ pc = "done"
  /\ engine # "PushDpEngine"
  /\ Range(roots) = {1, 2}
  /\ adj[1] # <<>>
  /\ adj[2] # <<>>
  /\ \E rs \in PermsOf(roots) :
       Order(DiscoverLoop(engine, ctx, Seeded(engine, rs)).buckets)
         # Order(buckets)

\* State s has a neighbour that breaks the rank invariant of engine e over
\* the lists g: one whose rank is not strictly smaller (pull engines), or
\* not strictly larger (push engine), than the rank of s.
BreaksRank(e, g, s) ==
  \E t \in Range(g[s]) :
    IF e = "PushDpEngine" THEN ~(rank(t) > rank(s)) ELSE ~(rank(t) < rank(s))

\* C29: with debug assertions the discovery step that expands a state with
\* a neighbour that breaks the rank invariant panics, no value having been
\* computed; every other discovery step, and every discovery step of a
\* build without debug assertions, goes on with the discovery.
C29_DebugOnlyRankCheck ==
  [][(pc = "discover" /\ stack # <<>>) =>
       IF ctx.debug /\ BreaksRank(engine, ctx.nbrs, stack[Len(stack)])
         THEN pc' = "panic" /\ val = EmptyMap /\ val' = EmptyMap /\ cursor' = 1
         ELSE pc' = "discover" /\ stack[Len(stack)] \in DOMAIN adj']_vars

\* C29 witness: a build with debug assertions has panicked in discovery on
\* a state whose first neighbour keeps the rank invariant and whose second
\* one has the state's own rank.
C29_Witness ==
  /\ pc = "panic"
  /\ ctx.debug
  /\ val = EmptyMap
  /\ \E s \in seen \ DOMAIN adj :
       /\ Len(ctx.nbrs[s]) = 2
       /\ ~BreaksRank(engine, [ctx.nbrs EXCEPT ![s] = SubSeq(@, 1, 1)], s)
       /\ rank(ctx.nbrs[s][2]) = rank(s)

(***************************************************************************)
(* BitVec values and their operators, on a target whose usize has 64 bits. *)
(***************************************************************************)
\* a | b and a ^ b on usize.
RECURSIVE BitOr(_, _)
BitOr(a, b) ==
  IF a = 0 THEN b
  ELSE IF b = 0 THEN a
  ELSE (IF a % 2 = 1 \/ b % 2 = 1 THEN 1 ELSE 0) + 2 * BitOr(a \div 2, b \div 2)

RECURSIVE BitXor(_, _)
BitXor(a, b) ==
  IF a = 0 THEN b
  ELSE IF b = 0 THEN a
  ELSE ((a + b) % 2) + 2 * BitXor(a \div 2, b \div 2)

\* a & !mask on usize: the bits of a that are not bits of mask.
AndNot(a, mask) == a - BitAnd(a, mask)

\* a.wrapping_add(b) on usize: the sum, less 2^64 (16 * 2^30 * 2^30) when
\* it reaches 2^64.
wrapping_add(a, b) ==
  LET s == a + b
  IN IF (s \div Pow2(30)) \div Pow2(30) < 16 THEN s
     ELSE s - 16 * Pow2(30) * Pow2(30)

\* BitVec::new
bv_new(n) == [data |-> 0, n |-> n]

\* BitVec::unit, as an Option ({} is a panic).
bv_unit(i, n, checks) ==
  IF ~(i < n) THEN {}
  ELSE LET one == shl_one(n - 1 - i, checks)
       IN IF one = {} THEN {}
          ELSE from_usize(CHOOSE x \in one : TRUE, n, checks)

\* new_data of set and set_mut, as an Option: the asserts, the mask and
\* the match on value.
SetData(bv, i, value, checks) ==
  IF ~(i < bv.n) \/ ~(value = 0 \/ value = 1) THEN {}
  ELSE LET mask == shl_one(bv.n - 1 - i, checks)
       IN IF mask = {} THEN {}
          ELSE IF value = 0 THEN {AndNot(bv.data, CHOOSE x \in mask : TRUE)}
          ELSE {BitOr(bv.data, CHOOSE x \in mask : TRUE)}

\* BitVec::set
bv_set(bv, i, value, checks) ==
  LET d == SetData(bv, i, value, checks)
  IN IF d = {} THEN {} ELSE from_usize(CHOOSE x \in d : TRUE, bv.n, checks)

\* BitVec::set_mut: self after the call.
bv_set_mut(bv, i, value, checks) ==
  {[bv EXCEPT !.data = x] : x \in SetData(bv, i, value, checks)}

\* Mutant of bv_add: the sum is stored without the mask of from_usize.
bv_addUnmasked(a, b, checks) ==
  IF a.n # b.n THEN {}
  ELSE {[data |-> wrapping_add(a.data, b.data), n |-> a.n]}

\* impl Add for BitVec
bv_add(a, b, checks) ==
  IF a.n # b.n THEN {}
  ELSE from_usize(wrapping_add(a.data, b.data), a.n, checks)

\* impl BitXor for BitVec
bv_bitxor(a, b, checks) ==
  IF a.n # b.n THEN {} ELSE from_usize(BitXor(a.data, b.data), a.n, checks)

\* impl BitAnd for BitVec
bv_bitand(a, b, checks) ==
  IF a.n # b.n THEN {} ELSE from_usize(BitAnd(a.data, b.data), a.n, checks)

\* impl BitOr for BitVec
bv_bitor(a, b, checks) ==
  IF a.n # b.n THEN {} ELSE from_usize(BitOr(a.data, b.data), a.n, checks)

MaxWidth == 3   \* longest bit vectors the operators are run on

\* The caller's two variables.
Slots == 1 .. 2

\* The usize values given to from_usize for length n: every value of up to
\* n + 1 bits, and one with its thirty low bits set.
Words(n) == 0 .. Pow2(n + 1) - 1 \cup {Pow2(30) - 1}

\* The call op(args) has returned r, which is stored in variable k; a panic
\* ends the run.  A BitVec argument is given as the variable that holds it.
BvecReturn(k, o, args, r) ==
  /\ bv_ret' = [op |-> o, args |-> args, value |-> r]
  /\ IF r = {}
       THEN bv_pc' = "panic" /\ UNCHANGED bv_pool
       ELSE /\ bv_pc' = "ready"
            /\ bv_pool' = [bv_pool EXCEPT ![k] = CHOOSE x \in r : TRUE]
  /\ UNCHANGED <<bv_n, bv_overflow_checks>>
  /\ UNCHANGED nonBvecVars

BvecNew(k) ==
  /\ bv_pc = "ready"
  /\ BvecReturn(k, "new", <<bv_n>>, {bv_new(bv_n)})

BvecFromUsize(k, d) ==
  /\ bv_pc = "ready"
  /\ BvecReturn(k, "from_usize", <<d, bv_n>>,
                from_usize(d, bv_n, bv_overflow_checks))

BvecUnit(k, i) ==
  /\ bv_pc = "ready"
  /\ BvecReturn(k, "unit", <<i, bv_n>>, bv_unit(i, bv_n, bv_overflow_checks))

BvecSet(k, j, i, value) ==
  /\ bv_pc = "ready"
  /\ BvecReturn(k, "set", <<j, i, value>>,
                bv_set(bv_pool[j], i, value, bv_overflow_checks))

BvecSetMut(k, i, value) ==
  /\ bv_pc = "ready"
  /\ BvecReturn(k, "set_mut", <<k, i, value>>,
                bv_set_mut(bv_pool[k], i, value, bv_overflow_checks))

BvecAdd(k, i, j) ==
  /\ bv_pc = "ready"
  /\ BvecReturn(k, "add", <<i, j>>,
                bv_add(bv_pool[i], bv_pool[j], bv_overflow_checks))

BvecBitXor(k, i, j) ==
  /\ bv_pc = "ready"
  /\ BvecReturn(k, "bitxor", <<i, j>>,
                bv_bitxor(bv_pool[i], bv_pool[j], bv_overflow_checks))

BvecBitAnd(k, i, j) ==
  /\ bv_pc = "ready"
  /\ BvecReturn(k, "bitand", <<i, j>>,
                bv_bitand(bv_pool[i], bv_pool[j], bv_overflow_checks))

BvecBitOr(k, i, j) ==
  /\ bv_pc = "ready"
  /\ BvecReturn(k, "bitor", <<i, j>>,
                bv_bitor(bv_pool[i], bv_pool[j], bv_overflow_checks))

\* Both variables start as BitVec::new(n), n below the word size.
InitBvec ==
  /\ bv_n \in 0 .. MaxWidth
  /\ bv_pool = [k \in Slots |-> bv_new(bv_n)]
  /\ bv_ret = [op |-> "new", args |-> <<bv_n>>, value |-> {bv_new(bv_n)}]
  /\ bv_pc = "ready"
  /\ bv_overflow_checks \in BOOLEAN
  /\ NonBvecIdle

\* The indices offered reach n, the first one that fails the assert, and
\* the values 2, the first one that is neither 0 nor 1.
NextBvec ==
  \/ \E k \in Slots : BvecNew(k)
  \/ \E k \in Slots, d \in Words(bv_n) : BvecFromUsize(k, d)
  \/ \E k \in Slots, i \in 0 .. bv_n : BvecUnit(k, i)
  \/ \E k, j \in Slots, i \in 0 .. bv_n, value \in 0 .. 2 : BvecSet(k, j, i, value)
  \/ \E k \in Slots, i \in 0 .. bv_n, value \in 0 .. 2 : BvecSetMut(k, i, value)
  \/ \E k, i, j \in Slots : BvecAdd(k, i, j)
  \/ \E k, i, j \in Slots : BvecBitXor(k, i, j)
  \/ \E k, i, j \in Slots : BvecBitAnd(k, i, j)
  \/ \E k, i, j \in Slots : BvecBitOr(k, i, j)

SpecBvec == InitBvec /\ [][NextBvec]_vars

\* C30: every BitVec of length n below the word size obtained from new,
\* from_usize, unit, set, set_mut or +, ^, &, | has to_usize() < 2^n;
\* from_usize(d, n) holds d mod 2^n, the low n bits of d, and a + b holds
\* (a.to_usize() + b.to_usize()) mod 2^n.
C30_WidthInvariant ==
  /\ [](\A k \in Slots :
          /\ bv_len(bv_pool[k]) = bv_n
          /\ to_usize(bv_pool[k]) < Pow2(bv_n))
  /\ [](\A r \in bv_ret.value : bv_len(r) = bv_n /\ to_usize(r) < Pow2(bv_n))
  /\ [](bv_ret.op = "from_usize" =>
          \E r \in bv_ret.value : to_usize(r) = bv_ret.args[1] % Pow2(bv_n))
  /\ [][bv_ret'.op = "add" =>
          \E r \in bv_ret'.value :
            to_usize(r) = (to_usize(bv_pool[bv_ret'.args[1]])
                             + to_usize(bv_pool[bv_ret'.args[2]])) % Pow2(bv_n)]_vars

\* C30 witness: the sum of two different bit vectors of length 3 whose sum
\* does not fit in 3 bits has been returned, and is not zero.
C30_Witness ==
  /\ bv_ret.op = "add"
  /\ bv_n = 3
  /\ bv_ret.args = <<1, 2>>
  /\ \E r \in bv_ret.value :
       /\ to_usize(r) > 0
       /\ to_usize(r) < to_usize(bv_pool[2])
       /\ bv_pool[1] = r

====
